---- MODULE Spec2Model ----
(***************************************************************************)
(* A model of the financial-data aggregation and scoring engine of the     *)
(* stock screener: the record reconciler (providers/aggregator.py), the    *)
(* company-info cache of FinancialDataProvider, and the metric and scoring *)
(* functions of screener.py.                                               *)
(*                                                                         *)
(* with main() of screener.py, the weekly rollup of                        *)
(* generate_weekly_summary.py and the Alpha Vantage budget of              *)
(* fetch_symbols_ppx.py.                                                   *)
(*                                                                         *)
(* The specifications share the variables:                                 *)
(*   SpecMerge    - _merge_annual / _merge_quarterly, one record per step  *)
(*   SpecProvider - get_annual / get_quarterly / get_company_info          *)
(*   SpecScore    - annual_checks, quarterly_checks, score, official_checks*)
(*   SpecMain     - main() of screener.py over a batch of symbols          *)
(*   SpecSummary  - _select_best_entries, one row per step                 *)
(*   SpecAv       - av_overview_asset_type, one call per step              *)
(***************************************************************************)
EXTENDS Integers, Sequences, FiniteSets, TLC

VARIABLES
    pc,           \* position of the modelled call
    kind,         \* "annual" or "quarterly": which merge is running
    record_sets,  \* *record_sets, the argument of the merge
    set_idx,      \* index of the list the outer loop is at
    rec_idx,      \* index of the record the inner loop is at
    merged,       \* the dict `merged`, as a sequence of [key, value] in insertion order
    result,       \* the returned list
    info_cache,   \* FinancialDataProvider._info_cache: symbol -> CompanyInfo
    adapter_calls,\* per symbol, the calls made to kabutan.get_company_info
    objects,      \* number of CompanyInfo objects the adapter has created
    last_call,    \* the provider call that returned last, with what it returned
    first_info,   \* per symbol, the first info a get_company_info call returned
    calls_after,  \* per symbol, the adapter calls made after that first info
    annual_df,        \* main(): the annual frame to_dataframe returned
    quarterly_df,     \* main(): the quarterly frame to_dataframe returned
    annual_result,    \* main(): the dict annual_checks returned
    quarterly_result, \* main(): the dict quarterly_checks returned
    sc,               \* main(): what score returned, [s, notes]
    fetched_info,     \* main(): info, what fetch_company_info returned
    official_result,  \* main(): the dict official_checks returned
    symbols,          \* main(): the symbols of the batch, in input order
    idx,              \* main(): index of the symbol the loop is at
    attempt,          \* fetch_financials / fetch_company_info: the loop variable
    annual_records,   \* main(): the annual list fetch_financials returned
    quarterly_records,\* main(): the quarterly list fetch_financials returned
    rows,             \* main(): rows
    errors,           \* main(): errors, the symbol of each entry
    financials_of,    \* per symbol, the timelines the provider has when it answers
    per_of,           \* per symbol, the P/E of the CompanyInfo the adapter has
    attempt_log,      \* what the provider returned at each attempt of the running helper
    summary_rows,     \* _select_best_entries: rows, the argument
    score_fn,         \* _select_best_entries: "new_high" or "official"
    row_idx,          \* _select_best_entries: index of the row the loop is at
    best_by_symbol,   \* _select_best_entries: the dict best_by_symbol
    entries,          \* _select_best_entries: the sorted list returned
    av_config,        \* AV_KEY set, USE_AV_OVERVIEW_FILTER, AV_OVERVIEW_DAILY_BUDGET
    av_calls,         \* _av_calls
    av_cache,         \* CACHE: symbol -> [asset, ts]
    av_now,           \* the clock, in days
    av_requests,      \* the OVERVIEW requests issued so far in the process
    av_last           \* the call that returned last, with what it returned

mergeVars == <<pc, kind, record_sets, set_idx, rec_idx, merged, result>>
providerVars == <<info_cache, adapter_calls, objects, last_call, first_info, calls_after>>

scoreVars == <<annual_df, quarterly_df, annual_result, quarterly_result, sc, fetched_info,
               official_result>>

mainVars == <<symbols, idx, attempt, annual_records, quarterly_records, rows, errors,
              financials_of, per_of, attempt_log>>

summaryVars == <<summary_rows, score_fn, row_idx, best_by_symbol, entries>>

avVars == <<av_config, av_calls, av_cache, av_now, av_requests, av_last>>

vars == <<mergeVars, providerVars, scoreVars, mainVars, summaryVars, avVars>>

\* what a step of one specification leaves alone
outsideMerge == <<providerVars, scoreVars, mainVars, summaryVars, avVars>>
outsideProvider == <<kind, record_sets, set_idx, rec_idx, merged, result, scoreVars,
                     mainVars, summaryVars, avVars>>
outsideScore == <<kind, record_sets, set_idx, rec_idx, merged, result, providerVars,
                  mainVars, summaryVars, avVars>>
outsideMain == <<kind, record_sets, set_idx, rec_idx, merged, result, adapter_calls,
                 objects, last_call, first_info, calls_after, summaryVars, avVars>>
outsideSummary == <<kind, record_sets, set_idx, rec_idx, merged, result, providerVars,
                    scoreVars, mainVars, avVars>>
outsideAv == <<kind, record_sets, set_idx, rec_idx, merged, result, providerVars,
               scoreVars, mainVars, summaryVars>>

\* the screening variables where no symbol is being screened
NoScreening ==
    /\ annual_df = <<>>
    /\ quarterly_df = <<>>
    /\ annual_result = <<>>
    /\ quarterly_result = <<>>
    /\ sc = <<>>
    /\ fetched_info = <<>>
    /\ official_result = <<>>

\* the variables of main() where main() is not running
NoMain ==
    /\ symbols = <<>>
    /\ idx = 0
    /\ attempt = 0
    /\ annual_records = <<>>
    /\ quarterly_records = <<>>
    /\ rows = <<>>
    /\ errors = <<>>
    /\ financials_of = <<>>
    /\ per_of = <<>>
    /\ attempt_log = <<>>

\* the variables of the weekly rollup where it is not running
NoSummary ==
    /\ summary_rows = <<>>
    /\ score_fn = "none"
    /\ row_idx = 0
    /\ best_by_symbol = <<>>
    /\ entries = <<>>

\* the variables of the symbol fetcher where it is not running
NoAv ==
    /\ av_config = <<>>
    /\ av_calls = 0
    /\ av_cache = <<>>
    /\ av_now = 0
    /\ av_requests = 0
    /\ av_last = <<>>

\* the variables of the provider and of the merges where neither is running
NoProvider ==
    /\ kind = "none"
    /\ record_sets = <<>>
    /\ set_idx = 1
    /\ rec_idx = 1
    /\ merged = <<>>
    /\ result = <<>>
    /\ info_cache = <<>>
    /\ adapter_calls = <<>>
    /\ objects = 0
    /\ last_call = <<>>
    /\ first_info = <<>>
    /\ calls_after = <<>>

-----------------------------------------------------------------------------
(* Bounds of the model *)

\* number of symbols of a batch
MaxBatch == 2

\* the denominator of the score the weekly summary displays
NEW_HIGH_MAX_SCORE == 7
\* FINANCIAL_RETRY_ATTEMPTS, at its default
FINANCIAL_RETRY_ATTEMPTS == 1
\* number of annual periods of a frame
MaxAnnual == 4
\* number of quarters of a frame
MaxQuarters == 7
\* total number of records over all lists of one merge call
MaxRecs == 3
\* number of lists passed to one merge call
MaxSets == 2
\* number of records one source adapter returns in one call
MaxAdapterRecs == 1
\* number of calls made to the adapter's get_company_info
MaxInfoCalls == 3

-----------------------------------------------------------------------------
(* Records and dates *)

\* end_date values, as <<year, month, day>>
Dates == { <<2023, 3, 31>>, <<2024, 3, 31>>, <<2024, 4, 30>> }

Sources == { "kabutan", "yahoo_jp" }

DigitChar(n) == <<"0", "1", "2", "3", "4", "5", "6", "7", "8", "9">>[n + 1]

\* date.isoformat(): "YYYY-MM-DD", as the sequence of its characters
IsoFormat(d) ==
    << DigitChar(d[1] \div 1000), DigitChar((d[1] \div 100) % 10),
       DigitChar((d[1] \div 10) % 10), DigitChar(d[1] % 10), "-",
       DigitChar(d[2] \div 10), DigitChar(d[2] % 10), "-",
       DigitChar(d[3] \div 10), DigitChar(d[3] % 10) >>

\* date.__lt__: calendar order
DateLess(a, b) ==
    \/ a[1] < b[1]
    \/ a[1] = b[1] /\ a[2] < b[2]
    \/ a[1] = b[1] /\ a[2] = b[2] /\ a[3] < b[3]

\* AnnualRecord / QuarterlyRecord; ordinary_income carries the position of the
\* record in processing order, so that any two input records differ.
\* A QuarterlyRecord has no is_forecast field: it is FALSE in the model.
Record(d, s, f, v) ==
    [end_date |-> d, source |-> s, is_forecast |-> f, ordinary_income |-> v]

RecordShapes(k) ==
    { [end_date |-> d, source |-> s, is_forecast |-> f] :
        d \in Dates, s \in Sources,
        f \in (IF k = "annual" THEN BOOLEAN ELSE {FALSE}) }

\* number of records in the lists
RECURSIVE TotalLen(_)
TotalLen(sets) ==
    IF sets = <<>> THEN 0 ELSE Len(Head(sets)) + TotalLen(Tail(sets))

\* the records of all lists, in processing order
RECURSIVE Flatten(_)
Flatten(sets) ==
    IF sets = <<>> THEN <<>> ELSE Head(sets) \o Flatten(Tail(sets))

-----------------------------------------------------------------------------
(* The dict `merged` *)

\* position of key k in the dict, 0 when absent (merged.get(key) is None)
RECURSIVE KeyIndex(_, _)
KeyIndex(m, k) ==
    IF m = <<>> THEN 0
    ELSE IF m[Len(m)].key = k THEN Len(m)
    ELSE KeyIndex(SubSeq(m, 1, Len(m) - 1), k)

\* merged[key] = record: an existing key keeps its place, a new one goes last
DictPut(m, k, r) ==
    IF KeyIndex(m, k) = 0
    THEN Append(m, [key |-> k, value |-> r])
    ELSE [m EXCEPT ![KeyIndex(m, k)] = [key |-> k, value |-> r]]

\* the loop body of _merge_annual, without the forecast filter
MergeAnnualRecordKeepForecast(m, record) ==
    LET key == IsoFormat(record.end_date)
        at  == KeyIndex(m, key)
    IN  IF at # 0 /\ m[at].value.source = "yahoo_jp" /\ record.source # "yahoo_jp"
        THEN m
        ELSE DictPut(m, key, record)

\* the loop body of _merge_annual: one record against the dict
MergeAnnualRecord(m, record) ==
    IF record.is_forecast THEN m
    ELSE LET key == IsoFormat(record.end_date)
             at  == KeyIndex(m, key)
         IN  IF at # 0 /\ m[at].value.source = "yahoo_jp" /\ record.source # "yahoo_jp"
             THEN m
             ELSE DictPut(m, key, record)

\* the loop body of _merge_quarterly without the yahoo_jp guard
MergeQuarterlyRecordNoPriority(m, record) ==
    DictPut(m, IsoFormat(record.end_date), record)

\* the loop body of _merge_quarterly where the first record of a date is kept
MergeQuarterlyRecordFirstWins(m, record) ==
    IF KeyIndex(m, IsoFormat(record.end_date)) # 0 THEN m
    ELSE DictPut(m, IsoFormat(record.end_date), record)

\* the loop body of _merge_quarterly: one record against the dict
MergeQuarterlyRecord(m, record) ==
    LET key == IsoFormat(record.end_date)
        at  == KeyIndex(m, key)
    IN  IF at # 0 /\ m[at].value.source = "yahoo_jp" /\ record.source # "yahoo_jp"
        THEN m
        ELSE DictPut(m, key, record)

\* insert r into a list sorted by end_date descending, after its equals (stable)
RECURSIVE InsertDesc(_, _)
InsertDesc(sorted, r) ==
    IF sorted = <<>> THEN <<r>>
    ELSE IF DateLess(Head(sorted).end_date, r.end_date)
         THEN <<r>> \o sorted
         ELSE <<Head(sorted)>> \o InsertDesc(Tail(sorted), r)

\* merged.values() in insertion order
RECURSIVE DictValues(_)
DictValues(m) ==
    IF m = <<>> THEN <<>> ELSE <<Head(m).value>> \o DictValues(Tail(m))

RECURSIVE SortDesc(_)
\* sorted(values, key=end_date, reverse=True): stable, most recent first
SortDesc(values) ==
    IF values = <<>> THEN <<>>
    ELSE InsertDesc(SortDesc(SubSeq(values, 1, Len(values) - 1)), values[Len(values)])

\* sorted(...) without reverse=True
RECURSIVE ReverseSeq(_)
ReverseSeq(s) ==
    IF s = <<>> THEN <<>> ELSE Append(ReverseSeq(Tail(s)), Head(s))

SortedValuesAscending(m) == ReverseSeq(SortDesc(DictValues(m)))

\* the return statement of both merges
SortedValues(m) == SortDesc(DictValues(m))

-----------------------------------------------------------------------------
(* SpecMerge: a merge call, one loop iteration per step *)

InitMerge ==
    /\ pc = "args"
    /\ kind \in {"annual", "quarterly"}
    /\ record_sets = <<>>
    /\ set_idx = 1
    /\ rec_idx = 1
    /\ merged = <<>>
    /\ result = <<>>
    /\ info_cache = <<>>
    /\ adapter_calls = <<>>
    /\ objects = 0
    /\ last_call = <<>>
    /\ first_info = <<>>
    /\ calls_after = <<>>
    /\ NoScreening
    /\ NoMain
    /\ NoSummary
    /\ NoAv

\* the caller adds one more (empty) list to the arguments
AddSet ==
    /\ pc = "args"
    /\ Len(record_sets) < MaxSets
    /\ record_sets' = Append(record_sets, <<>>)
    /\ UNCHANGED <<pc, kind, set_idx, rec_idx, merged, result>>
    /\ UNCHANGED outsideMerge

\* the caller adds one more record to the last list of the arguments
AddRecord ==
    /\ pc = "args"
    /\ record_sets # <<>>
    /\ TotalLen(record_sets) < MaxRecs
    /\ \E shape \in RecordShapes(kind) :
         LET r == Record(shape.end_date, shape.source, shape.is_forecast,
                         TotalLen(record_sets) + 1)
             n == Len(record_sets)
         IN  record_sets' = [record_sets EXCEPT ![n] = Append(@, r)]
    /\ UNCHANGED <<pc, kind, set_idx, rec_idx, merged, result>>
    /\ UNCHANGED outsideMerge

\* entry of _merge_annual / _merge_quarterly: merged = {}
MergeCall ==
    /\ pc = "args"
    /\ record_sets # <<>>
    /\ pc' = "loop"
    /\ merged' = <<>>
    /\ set_idx' = 1
    /\ rec_idx' = 1
    /\ UNCHANGED <<kind, record_sets, result>>
    /\ UNCHANGED outsideMerge

\* the outer loop moves to the next list when the inner loop is exhausted
NextSet ==
    /\ pc = "loop"
    /\ set_idx <= Len(record_sets)
    /\ rec_idx > Len(record_sets[set_idx])
    /\ set_idx' = set_idx + 1
    /\ rec_idx' = 1
    /\ UNCHANGED <<pc, kind, record_sets, merged, result>>
    /\ UNCHANGED outsideMerge

\* one iteration of the inner loop
MergeStep ==
    /\ pc = "loop"
    /\ set_idx <= Len(record_sets)
    /\ rec_idx <= Len(record_sets[set_idx])
    /\ merged' = IF kind = "annual"
                 THEN MergeAnnualRecord(merged, record_sets[set_idx][rec_idx])
                 ELSE MergeQuarterlyRecord(merged, record_sets[set_idx][rec_idx])
    /\ rec_idx' = rec_idx + 1
    /\ UNCHANGED <<pc, kind, record_sets, set_idx, result>>
    /\ UNCHANGED outsideMerge

\* return sorted(merged.values(), ...)
MergeReturn ==
    /\ pc = "loop"
    /\ set_idx > Len(record_sets)
    /\ pc' = "done"
    /\ result' = SortedValues(merged)
    /\ UNCHANGED <<kind, record_sets, set_idx, rec_idx, merged>>
    /\ UNCHANGED outsideMerge

NextMerge ==
    \/ AddSet
    \/ AddRecord
    \/ MergeCall
    \/ NextSet
    \/ MergeStep
    \/ MergeReturn


SpecMerge == InitMerge /\ [][NextMerge]_vars

-----------------------------------------------------------------------------
(* The merges as functions of their arguments *)

RECURSIVE MergeAnnualFrom(_, _)
\* the two loops of _merge_annual over the records in processing order
MergeAnnualFrom(m, flat) ==
    IF flat = <<>> THEN m
    ELSE MergeAnnualFrom(MergeAnnualRecord(m, Head(flat)), Tail(flat))

\* _merge_annual(*record_sets)
MergeAnnual(sets) == SortedValues(MergeAnnualFrom(<<>>, Flatten(sets)))

RECURSIVE MergeQuarterlyFrom(_, _)
\* the two loops of _merge_quarterly over the records in processing order
MergeQuarterlyFrom(m, flat) ==
    IF flat = <<>> THEN m
    ELSE MergeQuarterlyFrom(MergeQuarterlyRecord(m, Head(flat)), Tail(flat))

\* _merge_quarterly(*record_sets)
MergeQuarterly(sets) == SortedValues(MergeQuarterlyFrom(<<>>, Flatten(sets)))

-----------------------------------------------------------------------------
(* SpecProvider: FinancialDataProvider over its two source adapters *)

Symbols == { "5032.T", "7203.T" }

\* None, where a CompanyInfo is expected
NoInfo == [symbol |-> "", id |-> 0]

\* a CompanyInfo object; id stands for the identity of the object
CompanyInfo(symbol, id) == [symbol |-> symbol, id |-> id]

\* the lists an adapter of source src can return for a merge of kind k
AdapterLists(src, k) ==
    UNION { { [i \in 1..n |-> Record(f[i].end_date, src, f[i].is_forecast, i)] :
                f \in [1..n -> { sh \in RecordShapes(k) :
                                   /\ sh.source = src
                                   /\ (src = "yahoo_jp" => ~sh.is_forecast) }] } :
            n \in 0..MaxAdapterRecs }

\* what a call of an adapter's get_annual / get_quarterly does: raise or return a list
AdapterOutcomes(src, k) ==
    { [raised |-> TRUE, records |-> <<>>] }
        \cup { [raised |-> FALSE, records |-> l] : l \in AdapterLists(src, k) }

\* what a call of kabutan.get_company_info does: raise, return None, or return
\* a new CompanyInfo object
InfoOutcomes(symbol, id) ==
    { [raised |-> TRUE, info |-> NoInfo],
      [raised |-> FALSE, info |-> NoInfo],
      [raised |-> FALSE, info |-> CompanyInfo(symbol, id)] }

\* get_annual with the call of the yahoo adapter outside any try block
GetAnnualCallYahooUncaught(kab, yah) ==
    LET kabutan_records == IF kab.raised THEN <<>> ELSE kab.records
    IN  IF yah.raised
        THEN [escaped |-> TRUE, value |-> <<>>]
        ELSE [escaped |-> FALSE,
              value |-> MergeAnnual(<<kabutan_records, yah.records>>)]

\* FinancialDataProvider.get_annual, given what the two adapters do:
\* whether an exception reaches the caller, and the value returned
GetAnnualCall(kab, yah) ==
    LET kabutan_records == IF kab.raised THEN <<>> ELSE kab.records
        yahoo_records   == IF yah.raised THEN <<>> ELSE yah.records
    IN  [escaped |-> FALSE,
         value |-> MergeAnnual(<<kabutan_records, yahoo_records>>)]

\* FinancialDataProvider.get_quarterly, given what the two adapters do
GetQuarterlyCall(kab, yah) ==
    LET kabutan_records == IF kab.raised THEN <<>> ELSE kab.records
        yahoo_records   == IF yah.raised THEN <<>> ELSE yah.records
    IN  [escaped |-> FALSE,
         value |-> MergeQuarterly(<<kabutan_records, yahoo_records>>)]

\* a cache lookup that takes any entry, whatever its symbol
CacheGetAnySymbol(cache, symbol) ==
    IF DOMAIN cache # {} THEN cache[CHOOSE s \in DOMAIN cache : TRUE] ELSE NoInfo

\* self._info_cache.get(symbol)
CacheGet(cache, symbol) ==
    IF symbol \in DOMAIN cache THEN cache[symbol] ELSE NoInfo

\* self._info_cache[symbol] = info
CachePut(cache, symbol, info) ==
    [s \in DOMAIN cache \cup {symbol} |-> IF s = symbol THEN info ELSE cache[s]]

\* get_company_info that returns the info without storing it
GetCompanyInfoCallNoStore(cache, symbol, out) ==
    LET cached == CacheGet(cache, symbol)
    IN  IF cached # NoInfo
        THEN [escaped |-> FALSE, value |-> cached, cache |-> cache, invoked |-> FALSE]
        ELSE [escaped |-> FALSE,
              value |-> IF out.raised THEN NoInfo ELSE out.info,
              cache |-> cache, invoked |-> TRUE]

\* get_company_info with the adapter call outside the try block
GetCompanyInfoCallUncaught(cache, symbol, out) ==
    LET cached == CacheGet(cache, symbol)
    IN  IF cached # NoInfo
        THEN [escaped |-> FALSE, value |-> cached, cache |-> cache, invoked |-> FALSE]
        ELSE IF out.raised
        THEN [escaped |-> TRUE, value |-> NoInfo, cache |-> cache, invoked |-> TRUE]
        ELSE [escaped |-> FALSE, value |-> out.info,
              cache |-> IF out.info # NoInfo THEN CachePut(cache, symbol, out.info)
                        ELSE cache,
              invoked |-> TRUE]

\* get_company_info that stores whatever the lookup gave, None included
GetCompanyInfoCallStoreAlways(cache, symbol, out) ==
    LET cached == CacheGet(cache, symbol)
    IN  IF cached # NoInfo
        THEN [escaped |-> FALSE, value |-> cached, cache |-> cache, invoked |-> FALSE]
        ELSE LET info == IF out.raised THEN NoInfo ELSE out.info
             IN  [escaped |-> FALSE, value |-> info,
                  cache |-> CachePut(cache, symbol, info), invoked |-> TRUE]

\* FinancialDataProvider.get_company_info, given what the adapter does when it
\* is called: the value returned, the cache afterwards, whether the adapter
\* was invoked and whether an exception reaches the caller
GetCompanyInfoCall(cache, symbol, out) ==
    LET cached == CacheGet(cache, symbol)
    IN  IF cached # NoInfo
        THEN [escaped |-> FALSE, value |-> cached, cache |-> cache, invoked |-> FALSE]
        ELSE LET info == IF out.raised THEN NoInfo ELSE out.info
             IN  [escaped |-> FALSE, value |-> info,
                  cache |-> IF info # NoInfo THEN CachePut(cache, symbol, info)
                            ELSE cache,
                  invoked |-> TRUE]

KabutanAnnualOutcomes == AdapterOutcomes("kabutan", "annual")
YahooAnnualOutcomes == AdapterOutcomes("yahoo_jp", "annual")
KabutanQuarterlyOutcomes == AdapterOutcomes("kabutan", "quarterly")
YahooQuarterlyOutcomes == AdapterOutcomes("yahoo_jp", "quarterly")

NoOutcome == [raised |-> FALSE, records |-> <<>>]

\* last_call before any call and between calls
NoCall ==
    [api |-> "none", symbol |-> "", kabutan |-> NoOutcome, yahoo |-> NoOutcome,
     info_out |-> [raised |-> FALSE, info |-> NoInfo], escaped |-> FALSE,
     records |-> <<>>, info |-> NoInfo, invoked |-> FALSE]

\* FinancialDataProvider.__init__, before any call
InitProvider ==
    /\ pc = "provider"
    /\ kind = "none"
    /\ record_sets = <<>>
    /\ set_idx = 1
    /\ rec_idx = 1
    /\ merged = <<>>
    /\ result = <<>>
    /\ info_cache = <<>>
    /\ adapter_calls = [s \in Symbols |-> 0]
    /\ objects = 0
    /\ last_call = NoCall
    /\ first_info = [s \in Symbols |-> NoInfo]
    /\ calls_after = [s \in Symbols |-> 0]
    /\ NoScreening
    /\ NoMain
    /\ NoSummary
    /\ NoAv

\* a call of provider.get_annual(symbol)
GetAnnual ==
    /\ pc = "provider"
    /\ pc' = "returned"
    /\ \E symbol \in Symbols :
       \E kab \in KabutanAnnualOutcomes :
       \E yah \in YahooAnnualOutcomes :
         LET c == GetAnnualCall(kab, yah)
         IN  last_call' = [api |-> "get_annual", symbol |-> symbol, kabutan |-> kab,
                           yahoo |-> yah, info_out |-> [raised |-> FALSE, info |-> NoInfo],
                           escaped |-> c.escaped, records |-> c.value, info |-> NoInfo,
                           invoked |-> TRUE]
    /\ UNCHANGED <<info_cache, adapter_calls, objects, first_info, calls_after>>
    /\ UNCHANGED outsideProvider

\* a call of provider.get_quarterly(symbol)
GetQuarterly ==
    /\ pc = "provider"
    /\ pc' = "returned"
    /\ \E symbol \in Symbols :
       \E kab \in KabutanQuarterlyOutcomes :
       \E yah \in YahooQuarterlyOutcomes :
         LET c == GetQuarterlyCall(kab, yah)
         IN  last_call' = [api |-> "get_quarterly", symbol |-> symbol, kabutan |-> kab,
                           yahoo |-> yah, info_out |-> [raised |-> FALSE, info |-> NoInfo],
                           escaped |-> c.escaped, records |-> c.value, info |-> NoInfo,
                           invoked |-> TRUE]
    /\ UNCHANGED <<info_cache, adapter_calls, objects, first_info, calls_after>>
    /\ UNCHANGED outsideProvider

\* a call of provider.get_company_info(symbol); the adapter, when invoked,
\* raises, returns None or returns a new object
GetCompanyInfo ==
    /\ pc = "provider"
    /\ pc' = "returned"
    /\ \E symbol \in Symbols :
       \E out \in InfoOutcomes(symbol, objects + 1) :
         LET c == GetCompanyInfoCall(info_cache, symbol, out)
             created == c.invoked /\ ~out.raised /\ out.info # NoInfo
         IN  /\ c.invoked => adapter_calls[symbol] < MaxInfoCalls
             \* a cache hit does not depend on what the adapter would have done
             /\ ~c.invoked => out = [raised |-> FALSE, info |-> NoInfo]
             /\ info_cache' = c.cache
             /\ adapter_calls' = IF c.invoked
                                 THEN [adapter_calls EXCEPT ![symbol] = @ + 1]
                                 ELSE adapter_calls
             /\ objects' = IF created THEN objects + 1 ELSE objects
             /\ last_call' = [api |-> "get_company_info", symbol |-> symbol,
                              kabutan |-> NoOutcome, yahoo |-> NoOutcome,
                              info_out |-> out, escaped |-> c.escaped,
                              records |-> <<>>, info |-> c.value,
                              invoked |-> c.invoked]
             /\ first_info' = IF first_info[symbol] = NoInfo /\ ~c.escaped
                              THEN [first_info EXCEPT ![symbol] = c.value]
                              ELSE first_info
             /\ calls_after' = IF first_info[symbol] # NoInfo /\ c.invoked
                               THEN [calls_after EXCEPT ![symbol] = @ + 1]
                               ELSE calls_after
    /\ UNCHANGED outsideProvider

\* the caller takes the value returned; the provider is ready for the next call
ProviderReturn ==
    /\ pc = "returned"
    /\ pc' = "provider"
    /\ last_call' = NoCall
    /\ UNCHANGED <<info_cache, adapter_calls, objects, first_info, calls_after>>
    /\ UNCHANGED outsideProvider

NextProvider ==
    \/ GetAnnual
    \/ GetQuarterly
    \/ GetCompanyInfo
    \/ ProviderReturn

SpecProvider == InitProvider /\ [][NextProvider]_vars

-----------------------------------------------------------------------------
(* Floating-point values of the metric engine *)

\* A derived value is None, NaN, +inf, -inf, the rational n/d (t = "num"), or
\* sqrt(n/d) - 1 with n/d >= 0 (t = "root", the form of last2_cagr).
\* Rationals are kept in lowest terms with d > 0; comparisons are exact.
NoneV == [t |-> "none", n |-> 0, d |-> 1]
NaN   == [t |-> "nan",  n |-> 0, d |-> 1]
PInf  == [t |-> "pinf", n |-> 0, d |-> 1]
NInf  == [t |-> "ninf", n |-> 0, d |-> 1]

Abs(x) == IF x < 0 THEN -x ELSE x

RECURSIVE Gcd(_, _)
Gcd(a, b) == IF b = 0 THEN a ELSE Gcd(b, a % b)

\* the rational n/d, d # 0
Num(n, d) ==
    LET g == Gcd(Abs(n), Abs(d))
        sgn == IF d < 0 THEN -1 ELSE 1
    IN  [t |-> "num", n |-> (sgn * n) \div g, d |-> (sgn * d) \div g]

\* a / b on float64: x/0 is +inf or -inf, 0/0 is NaN
FloatDiv(a, b) ==
    IF b # 0 THEN Num(a, b)
    ELSE IF a = 0 THEN NaN
    ELSE IF a > 0 THEN PInf
    ELSE NInf

\* v - 1
MinusOne(v) == IF v.t = "num" THEN Num(v.n - v.d, v.d) ELSE v

\* pd.isna(v): None and NaN
IsNA(v) == v.t \in {"none", "nan"}

\* a bound that the float64 value of ratio ** (1 / 2) - 1 misses when the
\* ratio is exactly (1 + p/q) squared: (144 / 100) ** 0.5 - 1 is
\* 0.19999999999999996, below the float64 0.20
RootRoundsBelow(p, q) == p * 5 = q

\* v >= p/q, for q > 0; a comparison with NaN is False
GE(v, p, q) ==
    CASE v.t = "num"  -> v.n * q >= p * v.d
      [] v.t = "root" ->
            \/ p + q <= 0
            \/ v.n * q * q > (p + q) * (p + q) * v.d
            \/ /\ v.n * q * q = (p + q) * (p + q) * v.d
               /\ ~RootRoundsBelow(p, q)
      [] v.t = "pinf" -> TRUE
      [] OTHER        -> FALSE

\* v > p/q, for q > 0
GT(v, p, q) ==
    CASE v.t = "num"  -> v.n * q > p * v.d
      [] v.t = "pinf" -> TRUE
      [] OTHER        -> FALSE

\* v <= p/q, for q > 0
LE(v, p, q) ==
    CASE v.t = "num"  -> v.n * q <= p * v.d
      [] v.t = "ninf" -> TRUE
      [] OTHER        -> FALSE

\* v >= w, both floats
GEV(v, w) ==
    CASE v.t \in {"nan", "none"} \/ w.t \in {"nan", "none"} -> FALSE
      [] v.t = "pinf" -> TRUE
      [] w.t = "ninf" -> TRUE
      [] v.t = "ninf" -> FALSE
      [] w.t = "pinf" -> FALSE
      [] OTHER        -> v.n * w.d >= w.n * v.d

\* v + w, both floats
FloatAdd(v, w) ==
    CASE v.t = "nan" \/ w.t = "nan" -> NaN
      [] v.t = "pinf" -> IF w.t = "ninf" THEN NaN ELSE PInf
      [] v.t = "ninf" -> IF w.t = "pinf" THEN NaN ELSE NInf
      [] w.t \in {"pinf", "ninf"} -> w
      [] OTHER -> Num(v.n * w.d + w.n * v.d, v.d * w.d)

RECURSIVE FloatSum(_)
FloatSum(vs) ==
    IF vs = <<>> THEN Num(0, 1) ELSE FloatAdd(Head(vs), FloatSum(Tail(vs)))

\* Series.mean() of a non-empty series without NaN
FloatMean(vs) ==
    LET total == FloatSum(vs)
    IN  IF total.t = "num" THEN Num(total.n, total.d * Len(vs)) ELSE total

\* ratio ** (1 / 2) - 1 on float64: the root of a negative number is NaN,
\* pow(-inf, 0.5) is +inf
RootMinusOne(ratio) ==
    CASE ratio.t = "num" -> IF ratio.n < 0 THEN NaN
                            ELSE [t |-> "root", n |-> ratio.n, d |-> ratio.d]
      [] ratio.t = "ninf" -> PInf
      [] OTHER -> ratio

\* the first k elements: head(k), iloc[0:k], [:k]
FirstN(vs, k) == SubSeq(vs, 1, IF Len(vs) < k THEN Len(vs) ELSE k)

\* Series.dropna()
RECURSIVE DropNa(_)
DropNa(vs) ==
    IF vs = <<>> THEN <<>>
    ELSE IF IsNA(Head(vs)) THEN DropNa(Tail(vs))
    ELSE <<Head(vs)>> \o DropNa(Tail(vs))

\* number of elements that satisfy P
CountIf(vs, P(_)) == Cardinality({ i \in 1..Len(vs) : P(vs[i]) })

\* bool -> True / False of a dict entry that may also be missing or None
Tri(b) == IF b THEN "true" ELSE "false"

-----------------------------------------------------------------------------
(* annual_checks and quarterly_checks *)

\* a row of the data frame to_dataframe builds: rows with a null figure are
\* dropped, the rest sorted by end_date descending
Row(income, revenue) == [ordinary_income |-> income, revenue |-> revenue]

\* df["ordinary_income"].pct_change(periods=-1)
AnnualYoY(df) ==
    [i \in 1..Len(df) |->
        IF i < Len(df)
        THEN MinusOne(FloatDiv(df[i].ordinary_income, df[i + 1].ordinary_income))
        ELSE NaN]

\* the result dict of annual_checks on an empty frame
AnnualEmptyResult ==
    [enough_years |-> FALSE, stable_5_10 |-> "absent", no_big_drop |-> "absent",
     no_decline_small |-> "absent", avg_growth |-> NoneV, last1_yoy |-> NoneV,
     last2_cagr |-> NoneV, yoy_values |-> <<>>]

\* annual_checks(df)
AnnualChecks(df) ==
    IF df = <<>> THEN AnnualEmptyResult
    ELSE
    LET ordinary_yoy == AnnualYoY(df)
        window == FirstN(df, 5)
        yoy_series == DropNa(FirstN(ordinary_yoy, 5))
        stable_5_10 ==
            IF Len(yoy_series) >= 3
            THEN \A i \in 1..Len(yoy_series) :
                    GE(yoy_series[i], 5, 100) /\ LE(yoy_series[i], 10, 100)
            ELSE FALSE
        no_big_drop ==
            IF yoy_series # <<>>
            THEN \A i \in 1..Len(yoy_series) : GT(yoy_series[i], -20, 100)
            ELSE FALSE
        no_decline_small ==
            IF yoy_series # <<>>
            THEN \A i \in 1..Len(yoy_series) : GE(yoy_series[i], -5, 100)
            ELSE FALSE
        avg_growth == IF yoy_series # <<>> THEN FloatMean(yoy_series) ELSE NoneV
        last1 == IF Len(yoy_series) >= 1 THEN yoy_series[1] ELSE NoneV
        last2_cagr ==
            IF Len(window) >= 3
            THEN RootMinusOne(FloatDiv(window[1].ordinary_income,
                                       window[3].ordinary_income))
            ELSE NoneV
    IN  [enough_years |-> Len(df) >= 3,
         stable_5_10 |-> Tri(stable_5_10),
         no_big_drop |-> Tri(no_big_drop),
         no_decline_small |-> Tri(no_decline_small),
         avg_growth |-> avg_growth,
         last1_yoy |-> last1,
         last2_cagr |-> last2_cagr,
         yoy_values |-> yoy_series]

\* (df[col] - df[col].shift(-4)) / df[col].shift(-4), for col = ordinary_income
QuarterlyProfitYoY(df) ==
    [i \in 1..Len(df) |->
        IF i + 4 <= Len(df)
        THEN FloatDiv(df[i].ordinary_income - df[i + 4].ordinary_income,
                      df[i + 4].ordinary_income)
        ELSE NaN]

\* revenue compared with the quarter 3 periods before
QuarterlyRevenueYoYLag3(df) ==
    [i \in 1..Len(df) |->
        IF i + 3 <= Len(df)
        THEN FloatDiv(df[i].revenue - df[i + 3].revenue, df[i + 3].revenue)
        ELSE NaN]

\* the same for col = revenue
QuarterlyRevenueYoY(df) ==
    [i \in 1..Len(df) |->
        IF i + 4 <= Len(df)
        THEN FloatDiv(df[i].revenue - df[i + 4].revenue, df[i + 4].revenue)
        ELSE NaN]

\* df["ordinary_income"] / df["revenue"]
Margin(df) == [i \in 1..Len(df) |-> FloatDiv(df[i].ordinary_income, df[i].revenue)]

\* [x if pd.notna(x) else None for x in series]
NaToNone(vs) == [i \in 1..Len(vs) |-> IF IsNA(vs[i]) THEN NoneV ELSE vs[i]]

\* the result dict of quarterly_checks on an empty frame
QuarterlyEmptyResult ==
    [enough_quarters |-> FALSE, lastQ_ok |-> "absent", sequential_ok |-> "absent",
     accelerating |-> "absent", improving_margin |-> "absent",
     recent_profit_yoy |-> <<>>, recent_revenue_yoy |-> <<>>]

\* clause (a) of sequential_ok alone: every one of the 2 most recent quarters
\* passes both comparisons
SequentialOkClauseAOnly(ordinary_yoy, revenue_yoy) ==
    /\ \A i \in 1..Len(FirstN(ordinary_yoy, 2)) : GE(ordinary_yoy[i], 20, 100)
    /\ \A i \in 1..Len(FirstN(revenue_yoy, 2)) : GE(revenue_yoy[i], 10, 100)

\* sequential_ok of quarterly_checks, from the two YoY columns
SequentialOk(ordinary_yoy, revenue_yoy) ==
    LET last3_profit == FirstN(ordinary_yoy, 3)
        last3_revenue == FirstN(revenue_yoy, 3)
        last2_profit == FirstN(ordinary_yoy, 2)
        last2_revenue == FirstN(revenue_yoy, 2)
    IN  \/ /\ \A i \in 1..Len(last2_profit) : GE(last2_profit[i], 20, 100)
           /\ \A i \in 1..Len(last2_revenue) : GE(last2_revenue[i], 10, 100)
        \/ /\ CountIf(last3_profit, LAMBDA v : GE(v, 20, 100)) >= 2
           /\ CountIf(last3_revenue, LAMBDA v : GE(v, 10, 100)) >= 2

\* quarterly_checks(df)
QuarterlyChecks(df) ==
    IF df = <<>> THEN QuarterlyEmptyResult
    ELSE
    LET ordinary_yoy == QuarterlyProfitYoY(df)
        revenue_yoy == QuarterlyRevenueYoY(df)
        margin == Margin(df)
        last3_profit == FirstN(ordinary_yoy, 3)
        last3_revenue == FirstN(revenue_yoy, 3)
        last_q_ok ==
            /\ ~IsNA(last3_profit[1])
            /\ GE(last3_profit[1], 20, 100)
            /\ ~IsNA(last3_revenue[1])
            /\ GE(last3_revenue[1], 10, 100)
        sequential_ok == SequentialOk(ordinary_yoy, revenue_yoy)
        accelerating ==
            /\ ~IsNA(ordinary_yoy[1])
            /\ ~IsNA(ordinary_yoy[2])
            /\ GEV(ordinary_yoy[1], ordinary_yoy[2])
        improving_margin ==
            IF Len(df) >= 5
            THEN /\ ~IsNA(margin[1])
                 /\ ~IsNA(margin[5])
                 /\ GEV(margin[1], margin[5])
            ELSE FALSE
    IN  [enough_quarters |-> Len(df) >= 5,
         lastQ_ok |-> Tri(last_q_ok),
         sequential_ok |-> Tri(sequential_ok),
         accelerating |-> Tri(accelerating),
         improving_margin |-> Tri(improving_margin),
         recent_profit_yoy |-> NaToNone(last3_profit),
         recent_revenue_yoy |-> NaToNone(last3_revenue)]

-----------------------------------------------------------------------------
(* score and official_checks *)

\* dict.get(key) is truthy
Truthy(flag) == flag = "true"

\* value is not None and value >= 0.05
AtLeast5(v) == v.t # "none" /\ GE(v, 5, 100)

\* value is not None and value >= 0.20
AtLeast20(v) == v.t # "none" /\ GE(v, 20, 100)

\* what one check of score() adds to s and to notes
ScoreCheck(ok, note) == IF ok THEN [s |-> 1, notes |-> <<>>] ELSE [s |-> 0, notes |-> <<note>>]

\* the four annual checks of score(): each note stands for the message appended
ScoreAnnualChecks(annual) ==
    LET c1 == ScoreCheck(Truthy(annual.stable_5_10), "stable_5_10")
        c2 == ScoreCheck(Truthy(annual.no_big_drop), "no_big_drop")
        c3 == ScoreCheck(AtLeast20(annual.last1_yoy), "last1_yoy")
        c4 == ScoreCheck(AtLeast20(annual.last2_cagr), "last2_cagr")
    IN  [s |-> c1.s + c2.s + c3.s + c4.s,
         notes |-> c1.notes \o c2.notes \o c3.notes \o c4.notes]

\* the annual checks counted whatever enough_years says
ScoreAnnualNoGuard(annual) == ScoreAnnualChecks(annual)

\* the annual half of score()
ScoreAnnual(annual) ==
    IF annual.enough_years
    THEN ScoreAnnualChecks(annual)
    ELSE [s |-> 0, notes |-> <<"annual_insufficient">>]

\* the four quarterly checks of score()
ScoreQuarterlyChecks(quarterly) ==
    LET c1 == ScoreCheck(Truthy(quarterly.lastQ_ok), "lastQ_ok")
        c2 == ScoreCheck(Truthy(quarterly.sequential_ok), "sequential_ok")
        c3 == ScoreCheck(Truthy(quarterly.accelerating), "accelerating")
        c4 == ScoreCheck(Truthy(quarterly.improving_margin), "improving_margin")
    IN  [s |-> c1.s + c2.s + c3.s + c4.s,
         notes |-> c1.notes \o c2.notes \o c3.notes \o c4.notes]

\* a quarterly half that says nothing when the quarters are not enough
ScoreQuarterlyNoInsufficientNote(quarterly) ==
    IF quarterly.enough_quarters
    THEN ScoreQuarterlyChecks(quarterly)
    ELSE [s |-> 0, notes |-> <<>>]

\* the quarterly half of score()
ScoreQuarterly(quarterly) ==
    IF quarterly.enough_quarters
    THEN ScoreQuarterlyChecks(quarterly)
    ELSE [s |-> 0, notes |-> <<"quarterly_insufficient">>]

\* score(annual_result, quarterly_result)
Score(annual, quarterly) ==
    LET a == ScoreAnnual(annual)
        q == ScoreQuarterly(quarterly)
    IN  [s |-> a.s + q.s, notes |-> a.notes \o q.notes]

\* _valid_floats(values)
ValidFloats(vs) == DropNa(vs)

\* True / False / None of an official rule
Rule(evaluated, ok) == IF evaluated THEN Tri(ok) ELSE "none"

RuleNames ==
    {"rule1_new_high", "rule3_growth", "rule3_no_decline", "rule4_recent20",
     "rule5_sales", "rule6_profit", "rule7_resilience", "rule8_per"}

\* a count of every rule of the dict
ApplicableCountsAll(metrics) == Cardinality(RuleNames)

\* sum(1 for value in metrics.values() if value is not None)
Applicable(metrics) == Cardinality({ r \in RuleNames : metrics[r] # "none" })

\* sum(1 for value in metrics.values() if value)
OfficialScore(metrics) == Cardinality({ r \in RuleNames : metrics[r] = "true" })

\* the metrics dict of official_checks; info is [present, per]
OfficialMetrics(annual, quarterly, company) ==
    LET yoy_values == ValidFloats(annual.yoy_values)
        avg_growth == IF yoy_values # <<>> THEN annual.avg_growth ELSE NoneV
        last1_yoy == annual.last1_yoy
        last2_cagr == annual.last2_cagr
        recent_revenue == ValidFloats(quarterly.recent_revenue_yoy)
        recent_profit == ValidFloats(quarterly.recent_profit_yoy)
        head_profit == FirstN(recent_profit, 3)
        head_yoy == FirstN(yoy_values, 3)
    IN  [rule1_new_high |-> "true",
         rule3_growth |-> Rule(avg_growth.t # "none", GE(avg_growth, 7, 100)),
         rule3_no_decline |->
             Rule(yoy_values # <<>>,
                  \A i \in 1..Len(yoy_values) : GE(yoy_values[i], -5, 100)),
         rule4_recent20 |->
             Rule(last1_yoy.t # "none" /\ last2_cagr.t # "none",
                  GE(last1_yoy, 20, 100) /\ GE(last2_cagr, 20, 100)),
         rule5_sales |->
             Rule(recent_revenue # <<>>,
                  CountIf(recent_revenue, LAMBDA v : GE(v, 10, 100)) >= 2),
         rule6_profit |->
             Rule(recent_profit # <<>>,
                  CountIf(recent_profit, LAMBDA v : GE(v, 20, 100)) >= 2),
         rule7_resilience |->
             Rule(recent_profit # <<>> /\ yoy_values # <<>>,
                  /\ \A i \in 1..Len(head_profit) : GE(head_profit[i], 0, 1)
                  /\ \A i \in 1..Len(head_yoy) : GE(head_yoy[i], -5, 100)),
         rule8_per |->
             Rule(company.present /\ ~IsNA(company.per), LE(company.per, 60, 1))]

\* official_checks(annual_result, quarterly_result, info)
OfficialChecks(annual, quarterly, company) ==
    LET metrics == OfficialMetrics(annual, quarterly, company)
    IN  [metrics |-> metrics,
         applicable |-> Applicable(metrics),
         score |-> OfficialScore(metrics),
         avg_growth |-> IF ValidFloats(annual.yoy_values) # <<>>
                        THEN annual.avg_growth ELSE NoneV]

-----------------------------------------------------------------------------
(* SpecScore: the body of main()'s loop for one symbol *)

\* ordinary income of an annual period
AnnualIncomes == {-64, 0, 64, 68, 72, 76, 100}
\* revenue of an annual period
AnnualRevenues == {1000}
\* ordinary income and revenue of a quarter
QuarterFigures == { <<100, 1000>>, <<130, 1200>>, <<130, 1000>> }

\* a frame from the lists of its two columns, most recent period first
Frame(incomes, revenues) == [i \in 1..Len(incomes) |-> Row(incomes[i], revenues[i])]

\* the annual frames of up to MaxAnnual periods
AnnualFrames ==
    UNION { [1..k -> { Row(v, r) : v \in AnnualIncomes, r \in AnnualRevenues }]
            : k \in 0..MaxAnnual }

\* the quarterly frames of up to MaxQuarters quarters
QuarterlyFrames ==
    UNION { [1..k -> { Row(p[1], p[2]) : p \in QuarterFigures }] : k \in 0..MaxQuarters }

\* frames paired with every frame of the other kind: no data, the frames of
\* tests/test_metrics.py, four years of 5-10% growth, five flat quarters
AnnualFixtures ==
    { <<>>,
      Frame(<<150, 110, 80>>, <<240, 200, 160>>),
      Frame(<<76, 72, 68, 64>>, <<1000, 1000, 1000, 1000>>) }

\* annual frames longer than MaxAnnual: 5-10% growth after a year of no
\* income, and seven years whose sixth YoY value lies outside the window
AnnualLongFrames ==
    { Frame(<<76, 72, 68, 64, 0>>, <<1000, 1000, 1000, 1000, 1000>>),
      Frame(<<76, 72, 68, 64, 60, 56, 100>>,
            <<1000, 1000, 1000, 1000, 1000, 1000, 1000>>) }

\* three annual periods whose two-year growth is just below, at and just
\* above 44%, around every income of the year between
AnnualCagrFrames ==
    { Frame(<<newest, between, 100>>, <<1000, 1000, 1000>>) :
        newest \in {143, 144, 145}, between \in AnnualIncomes }

QuarterlyFixtures ==
    { <<>>,
      Frame(<<36, 30, 28, 26, 24, 22, 20, 18>>, <<72, 60, 56, 52, 48, 44, 40, 36>>),
      Frame(<<100, 100, 100, 100, 100>>, <<1000, 1000, 1000, 1000, 1000>>) }

\* six quarters whose year-ago quarters had no ordinary income, paired with
\* the annual fixtures
QuarterlyZeroFrames ==
    { Frame(<<130, 130, 100, 100, 0, 0>>, <<1200, 1200, 1000, 1000, 1000, 1000>>),
      Frame(<<130, 0, 100, 100, 0, 0>>, <<1200, 1200, 1000, 1000, 1000, 1000>>) }

\* the pairs of frames a symbol is screened with
FramePairs ==
    ((AnnualFrames \cup AnnualLongFrames \cup AnnualCagrFrames) \X QuarterlyFixtures)
        \cup (AnnualFixtures \X (QuarterlyFrames \cup QuarterlyZeroFrames))

\* what fetch_company_info returns: None, or a CompanyInfo with per None, NaN
\* or a number
Infos ==
    { [present |-> FALSE, per |-> NoneV],
      [present |-> TRUE, per |-> NoneV],
      [present |-> TRUE, per |-> NaN],
      [present |-> TRUE, per |-> Num(25, 1)],
      [present |-> TRUE, per |-> Num(80, 1)] }

NoOfficial == [metrics |-> [r \in RuleNames |-> "none"], applicable |-> 0,
               score |-> 0, avg_growth |-> NoneV]
NoScore == [s |-> 0, notes |-> <<>>]
NoInfoYet == [present |-> FALSE, per |-> NoneV]

InitScore ==
    /\ pc = "symbol"
    /\ kind = "none"
    /\ record_sets = <<>>
    /\ set_idx = 1
    /\ rec_idx = 1
    /\ merged = <<>>
    /\ result = <<>>
    /\ info_cache = <<>>
    /\ adapter_calls = <<>>
    /\ objects = 0
    /\ last_call = <<>>
    /\ first_info = <<>>
    /\ calls_after = <<>>
    /\ annual_df = <<>>
    /\ quarterly_df = <<>>
    /\ annual_result = AnnualEmptyResult
    /\ quarterly_result = QuarterlyEmptyResult
    /\ sc = NoScore
    /\ fetched_info = NoInfoYet
    /\ official_result = NoOfficial
    /\ NoMain
    /\ NoSummary
    /\ NoAv

\* annual_df = to_dataframe(...); quarterly_df = to_dataframe(...)
ToDataframe ==
    /\ pc = "symbol"
    /\ \E pair \in FramePairs :
          /\ annual_df' = pair[1]
          /\ quarterly_df' = pair[2]
    /\ pc' = "frames"
    /\ UNCHANGED <<annual_result, quarterly_result, sc, fetched_info, official_result>>
    /\ UNCHANGED outsideScore

\* annual_result = annual_checks(annual_df)
CallAnnualChecks ==
    /\ pc = "frames"
    /\ annual_result' = AnnualChecks(annual_df)
    /\ pc' = "annual"
    /\ UNCHANGED <<annual_df, quarterly_df, quarterly_result, sc, fetched_info, official_result>>
    /\ UNCHANGED outsideScore

\* quarterly_result = quarterly_checks(quarterly_df)
CallQuarterlyChecks ==
    /\ pc = "annual"
    /\ quarterly_result' = QuarterlyChecks(quarterly_df)
    /\ pc' = "quarterly"
    /\ UNCHANGED <<annual_df, quarterly_df, annual_result, sc, fetched_info, official_result>>
    /\ UNCHANGED outsideScore

\* sc, notes = score(annual_result, quarterly_result)
CallScore ==
    /\ pc = "quarterly"
    /\ sc' = Score(annual_result, quarterly_result)
    /\ pc' = "scored"
    /\ UNCHANGED <<annual_df, quarterly_df, annual_result, quarterly_result, fetched_info,
                   official_result>>
    /\ UNCHANGED outsideScore

\* info = fetch_company_info(provider, symbol)
\* official_result = official_checks(annual_result, quarterly_result, info)
CallOfficialChecks ==
    /\ pc = "scored"
    /\ \E i \in Infos :
          /\ fetched_info' = i
          /\ official_result' = OfficialChecks(annual_result, quarterly_result, i)
    /\ pc' = "official"
    /\ UNCHANGED <<annual_df, quarterly_df, annual_result, quarterly_result, sc>>
    /\ UNCHANGED outsideScore

\* the loop goes on to the next symbol
NextSymbol ==
    /\ pc = "official"
    /\ pc' = "symbol"
    /\ annual_df' = <<>>
    /\ quarterly_df' = <<>>
    /\ annual_result' = AnnualEmptyResult
    /\ quarterly_result' = QuarterlyEmptyResult
    /\ sc' = NoScore
    /\ fetched_info' = NoInfoYet
    /\ official_result' = NoOfficial
    /\ UNCHANGED outsideScore

NextScore ==
    \/ ToDataframe
    \/ CallAnnualChecks
    \/ CallQuarterlyChecks
    \/ CallScore
    \/ CallOfficialChecks
    \/ NextSymbol

SpecScore == InitScore /\ [][NextScore]_vars

-----------------------------------------------------------------------------
(* SpecMain: main(), fetch_financials and fetch_company_info *)

\* a record of a timeline: end_date is the year or the running number of the
\* quarter, a figure is <<x>> or, when it is None, <<>>
FinancialRecord(end, income, revenue) ==
    [end_date |-> end, ordinary_income |-> income, revenue |-> revenue]

\* the rows of the frame in the order sort_values("end_date", ascending=False)
\* gives them
RECURSIVE SortRowsDesc(_)
SortRowsDesc(frame_rows) ==
    IF frame_rows = <<>> THEN <<>>
    ELSE LET latest == CHOOSE i \in 1..Len(frame_rows) :
                          \A j \in 1..Len(frame_rows) :
                             \/ frame_rows[j].end_date < frame_rows[i].end_date
                             \/ (frame_rows[j].end_date = frame_rows[i].end_date /\ i <= j)
             rest == SubSeq(frame_rows, 1, latest - 1)
                        \o SubSeq(frame_rows, latest + 1, Len(frame_rows))
         IN  <<frame_rows[latest]>> \o SortRowsDesc(rest)

\* to_dataframe(records, "ordinary_income", "revenue"): the rows that have both
\* figures, most recent first
ToDataframeOf(records) ==
    LET kept == SelectSeq(records,
                          LAMBDA r : r.ordinary_income # <<>> /\ r.revenue # <<>>)
        frame_rows == [i \in 1..Len(kept) |->
                          [end_date |-> kept[i].end_date,
                           ordinary_income |-> kept[i].ordinary_income[1],
                           revenue |-> kept[i].revenue[1]]]
    IN  SortRowsDesc(frame_rows)

\* a timeline as the provider returns it, most recent period first
Timeline(incomes, revenues, latest) ==
    [i \in 1..Len(incomes) |->
        FinancialRecord(latest + 1 - i, <<incomes[i]>>, <<revenues[i]>>)]

\* the timelines the provider may have for a symbol: none; an annual record
\* without ordinary income; the timelines of tests/test_metrics.py; two annual
\* periods and no quarter
FinancialWorlds ==
    { [annual |-> <<>>, quarterly |-> <<>>],
      [annual |-> <<FinancialRecord(2024, <<>>, <<240>>)>>, quarterly |-> <<>>],
      [annual |-> Timeline(<<150, 110, 80>>, <<240, 200, 160>>, 2024),
       quarterly |-> Timeline(<<36, 30, 28, 26, 24, 22, 20, 18>>,
                              <<72, 60, 56, 52, 48, 44, 40, 36>>, 8)],
      [annual |-> Timeline(<<100, 64>>, <<1000, 1000>>, 2024), quarterly |-> <<>>] }

\* the P/E the adapter reports for a symbol
PerWorlds == { Num(25, 1), Num(80, 1) }

\* the P/E of each symbol: no two symbols have the same
PerAssignments ==
    { f \in [Symbols -> PerWorlds] : \A s, t \in Symbols : s # t => f[s] # f[t] }

\* the info argument of official_checks for what fetch_company_info returned
InfoArg(company, pers) ==
    IF company = NoInfo THEN [present |-> FALSE, per |-> NoneV]
    ELSE [present |-> TRUE, per |-> pers[company.symbol]]

\* dict.get(key) of a check: None when the key is missing
GetFlag(flag) == IF flag = "absent" THEN "none" ELSE flag

\* the notes main() adds for official rules: `value is False` holds of the
\* Python bool False only, and rule4_recent20 is a numpy bool whenever it is
\* not None, so that it never gets its note
OfficialNotes(metrics) ==
    SelectSeq(<<"rule3_growth", "rule3_no_decline", "rule5_sales", "rule6_profit",
                "rule7_resilience", "rule8_per">>,
              LAMBDA r : metrics[r] = "false")

\* last1_flag / last2_flag of main()
Flag20(v) == IF v.t = "none" \/ IsNA(v) THEN "none" ELSE Tri(GE(v, 20, 100))

\* the row main() appends for a symbol
ReportRow(symbol, annual, quarterly, momentum, official, company) ==
    [symbol |-> symbol,
     score_0to7 |-> momentum.s,
     official_score |-> official.score,
     official_applicable |-> official.applicable,
     metrics |-> official.metrics,
     nh_stable_growth |-> IF annual.enough_years THEN GetFlag(annual.stable_5_10)
                          ELSE "none",
     nh_no_big_drop |-> IF annual.enough_years THEN GetFlag(annual.no_big_drop)
                        ELSE "none",
     nh_last1_20 |-> Flag20(annual.last1_yoy),
     nh_last2_20 |-> Flag20(annual.last2_cagr),
     q_last_ok_20_10 |-> GetFlag(quarterly.lastQ_ok),
     q_seq_ok |-> GetFlag(quarterly.sequential_ok),
     q_accelerating |-> GetFlag(quarterly.accelerating),
     q_improving_margin |-> GetFlag(quarterly.improving_margin),
     notes |-> momentum.notes \o OfficialNotes(official.metrics),
     per |-> company.per]

\* the row of a symbol from the lists fetch_financials returned and the info
\* fetch_company_info returned: lines 450-533 of main()
ScreenSymbol(symbol, annual_list, quarterly_list, company) ==
    LET annual == AnnualChecks(ToDataframeOf(annual_list))
        quarterly == QuarterlyChecks(ToDataframeOf(quarterly_list))
        momentum == Score(annual, quarterly)
        official == OfficialChecks(annual, quarterly, company)
    IN  ReportRow(symbol, annual, quarterly, momentum, official, company)

\* df.sort_values(["score_0to7", "symbol"], ascending=[False, True]); the
\* symbols are compared by their position in SymbolOrder
SymbolOrder == <<"5032.T", "7203.T">>
SymbolRank(symbol) == CHOOSE i \in 1..Len(SymbolOrder) : SymbolOrder[i] = symbol

RowBefore(a, b) ==
    \/ a.score_0to7 > b.score_0to7
    \/ (a.score_0to7 = b.score_0to7 /\ SymbolRank(a.symbol) < SymbolRank(b.symbol))

RECURSIVE SortReport(_)
SortReport(report_rows) ==
    IF report_rows = <<>> THEN <<>>
    ELSE LET first == CHOOSE i \in 1..Len(report_rows) :
                         \A j \in 1..Len(report_rows) :
                            j # i => (RowBefore(report_rows[i], report_rows[j])
                                      \/ (~RowBefore(report_rows[j], report_rows[i]) /\ i < j))
             rest == [j \in 1..(Len(report_rows) - 1) |->
                         IF j < first THEN report_rows[j] ELSE report_rows[j + 1]]
         IN  <<report_rows[first]>> \o SortReport(rest)

\* the batches main() may be given: load_symbols(...)[:MAX_SYMBOLS]
Batches == UNION { [1..k -> Symbols] : k \in 0..MaxBatch }

\* one attempt more than configured
AttemptsOneMore == FINANCIAL_RETRY_ATTEMPTS + 2

\* attempts = FINANCIAL_RETRY_ATTEMPTS + 1
Attempts == FINANCIAL_RETRY_ATTEMPTS + 1

\* the symbol the loop is at
Symbol == symbols[idx]

InitMain ==
    /\ pc = "main"
    /\ kind = "none"
    /\ record_sets = <<>>
    /\ set_idx = 1
    /\ rec_idx = 1
    /\ merged = <<>>
    /\ result = <<>>
    /\ info_cache = <<>>
    /\ adapter_calls = <<>>
    /\ objects = 0
    /\ last_call = <<>>
    /\ first_info = <<>>
    /\ calls_after = <<>>
    /\ annual_df = <<>>
    /\ quarterly_df = <<>>
    /\ annual_result = AnnualEmptyResult
    /\ quarterly_result = QuarterlyEmptyResult
    /\ sc = NoScore
    /\ fetched_info = NoInfoYet
    /\ official_result = NoOfficial
    /\ symbols \in Batches
    /\ idx = 1
    /\ attempt = 0
    /\ annual_records = <<>>
    /\ quarterly_records = <<>>
    /\ rows = <<>>
    /\ errors = <<>>
    /\ financials_of \in [Symbols -> FinancialWorlds]
    /\ per_of \in PerAssignments
    /\ attempt_log = <<>>
    /\ NoSummary
    /\ NoAv

\* main() with no symbol: the empty report is written and main() returns
NoSymbols ==
    /\ pc = "main"
    /\ symbols = <<>>
    /\ pc' = "report"
    /\ UNCHANGED <<scoreVars, symbols, idx, attempt, annual_records, quarterly_records,
                   rows, errors, financials_of, per_of, attempt_log, info_cache>>
    /\ UNCHANGED outsideMain

\* provider = FinancialDataProvider(); rows = []; errors = []
EnterLoop ==
    /\ pc = "main"
    /\ symbols # <<>>
    /\ pc' = "loop"
    /\ UNCHANGED <<scoreVars, symbols, idx, attempt, annual_records, quarterly_records,
                   rows, errors, financials_of, per_of, attempt_log, info_cache>>
    /\ UNCHANGED outsideMain

\* the for loop takes the next symbol and calls fetch_financials
StartSymbol ==
    /\ pc = "loop"
    /\ idx <= Len(symbols)
    /\ pc' = "fetch_financials"
    /\ attempt' = 0
    /\ attempt_log' = <<>>
    /\ annual_records' = <<>>
    /\ quarterly_records' = <<>>
    /\ annual_df' = <<>>
    /\ quarterly_df' = <<>>
    /\ annual_result' = AnnualEmptyResult
    /\ quarterly_result' = QuarterlyEmptyResult
    /\ sc' = NoScore
    /\ fetched_info' = NoInfoYet
    /\ official_result' = NoOfficial
    /\ UNCHANGED <<symbols, idx, rows, errors, financials_of, per_of, info_cache>>
    /\ UNCHANGED outsideMain

\* one pass of the loop of fetch_financials: the provider answers each call
\* with the timeline it has or, when its adapters fail, with []
FetchFinancialsAttempt ==
    /\ pc = "fetch_financials"
    /\ attempt < Attempts
    /\ \E annual_ok \in BOOLEAN, quarterly_ok \in BOOLEAN :
          LET got_annual == IF annual_ok THEN financials_of[Symbol].annual ELSE <<>>
              got_quarterly == IF quarterly_ok THEN financials_of[Symbol].quarterly
                               ELSE <<>>
          IN  /\ annual_records' = got_annual
              /\ quarterly_records' = got_quarterly
              /\ attempt_log' = Append(attempt_log, <<got_annual, got_quarterly>>)
              /\ IF got_annual # <<>> \/ got_quarterly # <<>>
                 THEN pc' = "fetched" /\ attempt' = attempt
                 ELSE pc' = pc /\ attempt' = attempt + 1
    /\ UNCHANGED <<scoreVars, symbols, idx, rows, errors, financials_of, per_of,
                   info_cache>>
    /\ UNCHANGED outsideMain

\* the loop of fetch_financials is over: return last_annual, last_quarterly
FetchFinancialsGiveUp ==
    /\ pc = "fetch_financials"
    /\ attempt >= Attempts
    /\ pc' = "fetched"
    /\ UNCHANGED <<scoreVars, symbols, idx, attempt, annual_records, quarterly_records,
                   rows, errors, financials_of, per_of, attempt_log, info_cache>>
    /\ UNCHANGED outsideMain

\* the loop continues without a word in errors
NoDataSilent ==
    /\ pc = "fetched"
    /\ annual_records = <<>>
    /\ quarterly_records = <<>>
    /\ idx' = idx + 1
    /\ pc' = "loop"
    /\ UNCHANGED <<scoreVars, symbols, attempt, annual_records, quarterly_records, rows,
                   errors, financials_of, per_of, attempt_log, info_cache>>
    /\ UNCHANGED outsideMain

\* no list has a record: the symbol goes to errors and the loop continues
NoData ==
    /\ pc = "fetched"
    /\ annual_records = <<>>
    /\ quarterly_records = <<>>
    /\ errors' = Append(errors, Symbol)
    /\ idx' = idx + 1
    /\ pc' = "loop"
    /\ UNCHANGED <<scoreVars, symbols, attempt, annual_records, quarterly_records, rows,
                   financials_of, per_of, attempt_log, info_cache>>
    /\ UNCHANGED outsideMain

\* to_dataframe, annual_checks, quarterly_checks and score, then the call of
\* fetch_company_info
Screen ==
    /\ pc = "fetched"
    /\ annual_records # <<>> \/ quarterly_records # <<>>
    /\ annual_df' = ToDataframeOf(annual_records)
    /\ quarterly_df' = ToDataframeOf(quarterly_records)
    /\ annual_result' = AnnualChecks(annual_df')
    /\ quarterly_result' = QuarterlyChecks(quarterly_df')
    /\ sc' = Score(annual_result', quarterly_result')
    /\ pc' = "fetch_company_info"
    /\ attempt' = 0
    /\ attempt_log' = <<>>
    /\ UNCHANGED <<fetched_info, official_result, symbols, idx, annual_records,
                   quarterly_records, rows, errors, financials_of, per_of, info_cache>>
    /\ UNCHANGED outsideMain

\* one pass of the loop of fetch_company_info: provider.get_company_info
\* answers from its cache or asks the adapter, which raises, returns None or
\* returns the CompanyInfo of the symbol
FetchCompanyInfoAttempt ==
    /\ pc = "fetch_company_info"
    /\ attempt < Attempts
    /\ \E out \in InfoOutcomes(Symbol, 1) :
          LET c == GetCompanyInfoCall(info_cache, Symbol, out)
          IN  /\ ~c.invoked => out = [raised |-> FALSE, info |-> NoInfo]
              /\ info_cache' = c.cache
              /\ fetched_info' = InfoArg(c.value, per_of)
              /\ attempt_log' = Append(attempt_log, <<c.value>>)
              /\ IF c.value # NoInfo
                 THEN pc' = "info_fetched" /\ attempt' = attempt
                 ELSE pc' = pc /\ attempt' = attempt + 1
    /\ UNCHANGED <<annual_df, quarterly_df, annual_result, quarterly_result, sc,
                   official_result, symbols, idx, annual_records, quarterly_records,
                   rows, errors, financials_of, per_of>>
    /\ UNCHANGED outsideMain

\* the loop of fetch_company_info is over: return info
FetchCompanyInfoGiveUp ==
    /\ pc = "fetch_company_info"
    /\ attempt >= Attempts
    /\ pc' = "info_fetched"
    /\ UNCHANGED <<scoreVars, symbols, idx, attempt, annual_records, quarterly_records,
                   rows, errors, financials_of, per_of, attempt_log, info_cache>>
    /\ UNCHANGED outsideMain

\* official_checks, the notes and the flags, rows.append(...)
AppendRow ==
    /\ pc = "info_fetched"
    /\ official_result' = OfficialChecks(annual_result, quarterly_result, fetched_info)
    /\ rows' = Append(rows, ReportRow(Symbol, annual_result, quarterly_result, sc,
                                      official_result', fetched_info))
    /\ idx' = idx + 1
    /\ pc' = "loop"
    /\ UNCHANGED <<annual_df, quarterly_df, annual_result, quarterly_result, sc,
                   fetched_info, symbols, attempt, annual_records, quarterly_records,
                   errors, financials_of, per_of, attempt_log, info_cache>>
    /\ UNCHANGED outsideMain

\* except Exception as exc: something in the body of the try raised while the
\* frames were built and checked or while the row was put together; the
\* symbol goes to errors, no row is appended and the loop continues
HandleException ==
    /\ \/ pc = "fetched" /\ (annual_records # <<>> \/ quarterly_records # <<>>)
       \/ pc = "info_fetched"
    /\ errors' = Append(errors, Symbol)
    /\ idx' = idx + 1
    /\ pc' = "loop"
    /\ UNCHANGED <<scoreVars, symbols, attempt, annual_records, quarterly_records, rows,
                   financials_of, per_of, attempt_log, info_cache>>
    /\ UNCHANGED outsideMain

\* after the last symbol: the rows are sorted and the report is written
WriteReport ==
    /\ pc = "loop"
    /\ idx > Len(symbols)
    /\ rows' = SortReport(rows)
    /\ pc' = "report"
    /\ UNCHANGED <<scoreVars, symbols, idx, attempt, annual_records, quarterly_records,
                   errors, financials_of, per_of, attempt_log, info_cache>>
    /\ UNCHANGED outsideMain

NextMain ==
    \/ NoSymbols
    \/ EnterLoop
    \/ StartSymbol
    \/ FetchFinancialsAttempt
    \/ FetchFinancialsGiveUp
    \/ NoData
    \/ Screen
    \/ FetchCompanyInfoAttempt
    \/ FetchCompanyInfoGiveUp
    \/ AppendRow
    \/ HandleException
    \/ WriteReport

SpecMain == InitMain /\ [][NextMain]_vars

\* the helpers go on: every provider call returns and the loop of a helper
\* takes its next pass or ends
FairHelpers ==
    /\ WF_vars(FetchFinancialsAttempt)
    /\ WF_vars(FetchFinancialsGiveUp)
    /\ WF_vars(FetchCompanyInfoAttempt)
    /\ WF_vars(FetchCompanyInfoGiveUp)

SpecMainFair == SpecMain /\ FairHelpers

-----------------------------------------------------------------------------
(* generate_weekly_summary.py: _select_best_entries *)

\* how many rows the daily reports of one window hold
MaxRows == 3

NEW_HIGH_SCORE_THRESHOLD == 6

\* OFFICIAL_SCORE_RATIO_THRESHOLD = 0.75, which a double holds exactly
OFFICIAL_SCORE_RATIO_THRESHOLD == [n |-> 3, d |-> 4]

\* report dates as date values: two daily reports, the later one larger
ReportDates == { 20251015, 20251022 }

\* an Optional[int] column of a report: None, or the integer parsed
NoInt == [t |-> "none"]
SomeInt(v) == [t |-> "int", v |-> v]

\* score_new_high, official_score, official_applicable of a row of a report
RowScores ==
    { <<5, NoInt, NoInt>>, <<6, SomeInt(3), SomeInt(4)>>, <<6, SomeInt(6), SomeInt(8)>>,
      <<7, SomeInt(4), SomeInt(4)>>, <<7, SomeInt(2), SomeInt(0)>> }

ScreenerRows ==
    { [report_date |-> date, symbol |-> symbol, score_new_high |-> s[1],
       official_score |-> s[2], official_applicable |-> s[3]] :
         date \in ReportDates, symbol \in Symbols, s \in RowScores }

RowLists == UNION { [1..n -> ScreenerRows] : n \in 0..MaxRows }

NoResult == [t |-> "none"]

\* a score value is the quotient of two small integers; two such quotients
\* are the same double exactly when they are the same rational
ScoreLess(a, b) == a.n * b.d < b.n * a.d
ScoreEqual(a, b) == a.n * b.d = b.n * a.d

ScoreNewHigh(row) ==
    IF row.score_new_high < NEW_HIGH_SCORE_THRESHOLD \/ NEW_HIGH_MAX_SCORE <= 0
    THEN NoResult
    ELSE [t |-> "score", n |-> row.score_new_high, d |-> NEW_HIGH_MAX_SCORE]

ScoreOfficial(row) ==
    IF row.official_score = NoInt \/ row.official_applicable = NoInt
    THEN NoResult
    ELSE IF row.official_applicable.v <= 0
    THEN NoResult
    ELSE LET ratio == [n |-> row.official_score.v, d |-> row.official_applicable.v]
         IN  IF ScoreLess(ratio, OFFICIAL_SCORE_RATIO_THRESHOLD)
             THEN NoResult
             ELSE [t |-> "score", n |-> ratio.n, d |-> ratio.d]

ApplyScoreFn(fn, row) ==
    IF fn = "new_high" THEN ScoreNewHigh(row) ELSE ScoreOfficial(row)

SummaryEntry(row, scored) ==
    [row |-> row, score_value |-> [n |-> scored.n, d |-> scored.d]]

\* the candidate replaces the entry only on a higher score, and never on an
\* equal score
ReplacesOnScoreOnly(candidate, existing) ==
    ScoreLess(existing.score_value, candidate.score_value)

\* the condition under which the candidate replaces the entry of its symbol
Replaces(candidate, existing) ==
    \/ ScoreLess(existing.score_value, candidate.score_value)
    \/ /\ ScoreEqual(candidate.score_value, existing.score_value)
       /\ candidate.row.report_date > existing.row.report_date

\* best_by_symbol.get(symbol): the position of the entry in the dict, 0 if none
BestIndex(best, symbol) ==
    IF \E i \in 1..Len(best) : best[i].row.symbol = symbol
    THEN CHOOSE i \in 1..Len(best) : best[i].row.symbol = symbol
    ELSE 0

\* SummaryEntry.sort_key, compared as tuples
SortKeyBefore(a, b) ==
    \/ ScoreLess(b.score_value, a.score_value)
    \/ /\ ScoreEqual(a.score_value, b.score_value)
       /\ \/ a.row.report_date < b.row.report_date
          \/ /\ a.row.report_date = b.row.report_date
             /\ SymbolRank(a.row.symbol) < SymbolRank(b.row.symbol)

RECURSIVE InsertEntry(_, _)
InsertEntry(sorted, e) ==
    IF sorted = <<>> THEN <<e>>
    ELSE IF SortKeyBefore(e, Head(sorted)) THEN <<e>> \o sorted
    ELSE <<Head(sorted)>> \o InsertEntry(Tail(sorted), e)

\* sorted(best_by_symbol.values(), key=sort_key): a stable sort
RECURSIVE SortEntries(_)
SortEntries(values) ==
    IF values = <<>> THEN <<>>
    ELSE InsertEntry(SortEntries(SubSeq(values, 1, Len(values) - 1)),
                     values[Len(values)])

InitSummary ==
    /\ pc = "select"
    /\ NoProvider
    /\ NoScreening
    /\ NoMain
    /\ NoAv
    /\ summary_rows \in RowLists
    /\ score_fn \in {"new_high", "official"}
    /\ row_idx = 1
    /\ best_by_symbol = <<>>
    /\ entries = <<>>

\* one pass of "for row in rows"
SelectRow ==
    /\ pc = "select"
    /\ row_idx <= Len(summary_rows)
    /\ LET row == summary_rows[row_idx]
           scored == ApplyScoreFn(score_fn, row)
           candidate == SummaryEntry(row, scored)
           at == BestIndex(best_by_symbol, row.symbol)
       IN  best_by_symbol' =
               IF scored = NoResult THEN best_by_symbol
               ELSE IF at = 0 THEN Append(best_by_symbol, candidate)
               ELSE IF Replaces(candidate, best_by_symbol[at])
               THEN [best_by_symbol EXCEPT ![at] = candidate]
               ELSE best_by_symbol
    /\ row_idx' = row_idx + 1
    /\ UNCHANGED <<pc, summary_rows, score_fn, entries>>
    /\ UNCHANGED outsideSummary

\* the return statement, after the loop
ReturnSorted ==
    /\ pc = "select"
    /\ row_idx = Len(summary_rows) + 1
    /\ entries' = SortEntries(best_by_symbol)
    /\ pc' = "returned"
    /\ UNCHANGED <<summary_rows, score_fn, row_idx, best_by_symbol>>
    /\ UNCHANGED outsideSummary

NextSummary ==
    \/ SelectRow
    \/ ReturnSorted

SpecSummary == InitSummary /\ [][NextSummary]_vars

-----------------------------------------------------------------------------
(* fetch_symbols_ppx.py: av_overview_asset_type *)

\* the largest AV_OVERVIEW_DAILY_BUDGET of the environments considered
MaxBudget == 2

\* 7 * 24 * 3600 seconds, the clock being counted in days
FRESH_DAYS == 7

\* the values of utcnow() at the calls of one process, in days
ClockDays == { 10, 13, 17 }

FirstDay == CHOOSE d \in ClockDays : \A e \in ClockDays : d <= e

\* a symbol is the text before its first "." and, if it has one, the text after
AvSymbol(base, dot, suffix) == [base |-> base, dot |-> dot, suffix |-> suffix]

TokyoSymbol == AvSymbol("7203", TRUE, "T")
ClassSymbol == AvSymbol("BRK", TRUE, "B")
PlainSymbol == AvSymbol("AAPL", FALSE, "")

AvSymbols == { TokyoSymbol, ClassSymbol, PlainSymbol }

\* str.upper() on the suffixes and asset types that occur
Upper(s) == IF s = "t" THEN "T" ELSE IF s = "etf" THEN "ETF" ELSE s

\* push() of _symbol_variants: a value is yielded when it is not empty and
\* was not yielded before
Push(seen, value) ==
    IF (value.base = "" /\ ~value.dot) \/ (\E i \in 1..Len(seen) : seen[i] = value)
    THEN seen
    ELSE Append(seen, value)

\* the candidates _symbol_variants yields, in order
SymbolVariants(symbol) ==
    LET own == Push(<<>>, symbol)
        base == IF symbol.dot
                THEN Push(own, AvSymbol(symbol.base, FALSE, ""))
                ELSE own
        tyo == IF symbol.dot /\ Upper(symbol.suffix) = "T"
               THEN Push(base, AvSymbol(symbol.base, TRUE, "TYO"))
               ELSE base
        tse == IF symbol.dot /\ Upper(symbol.suffix) = "T"
               THEN Push(tyo, AvSymbol(symbol.base, TRUE, "TSE"))
               ELSE tyo
    IN  IF symbol.dot /\ Upper(symbol.suffix) = "T"
        THEN Push(tse, AvSymbol(symbol.base, TRUE, "JP"))
        ELSE tse

MaxVariants == Len(SymbolVariants(TokyoSymbol))

\* what one OVERVIEW request comes to: an exception (network, HTTP status,
\* body that is no JSON), the rate-limit notice, a body without AssetType,
\* a body with one
Outcomes == { "error", "information", "no_asset", "asset" }

\* the answers to the requests of one call: the requests go on while the
\* answers are errors or bodies without AssetType
ResponseLists ==
    { [i \in 1..MaxVariants |-> IF i < k THEN pre ELSE o] :
        k \in 1..MaxVariants, pre \in {"error", "no_asset"}, o \in Outcomes }

AvConfigs ==
    [key : BOOLEAN, filter : BOOLEAN, budget : 0..MaxBudget]

\* cache/overview.json as load_cache() finds it; an entry without "ts"
\* counts as written at 0
AvEntry(asset, ts) == [asset |-> asset, ts |-> ts]

InitialCaches ==
    { <<>>,
      [s \in {TokyoSymbol} |-> AvEntry("etf", FirstDay - FRESH_DAYS + 1)],
      [s \in {TokyoSymbol} |-> AvEntry("COMMON STOCK", FirstDay - FRESH_DAYS)],
      [s \in {ClassSymbol} |-> AvEntry("", 0)] }

AvCachePut(cache, symbol, entry) ==
    [s \in DOMAIN cache \cup {symbol} |-> IF s = symbol THEN entry ELSE cache[s]]

\* the test of line 176
Fresh(cache, symbol, now) ==
    symbol \in DOMAIN cache /\ now - cache[symbol].ts < FRESH_DAYS

\* a budget test that lets one more request through
BudgetExceeded(calls, budget) == calls > budget

\* the budget test of lines 180 and 187
BudgetReached(calls, budget) == calls >= budget

\* the loop over the candidates from the i-th on: the count of requests
\* after it, and the asset found with its candidate, if any
RECURSIVE TryCandidates(_, _, _, _, _)
TryCandidates(candidates, i, calls, budget, responses) ==
    IF i > Len(candidates) \/ BudgetReached(calls, budget)
    THEN [calls |-> calls, found |-> FALSE, last_asset |-> ""]
    ELSE LET answer == responses[i]
         IN  IF answer = "information"
             THEN [calls |-> calls + 1, found |-> FALSE, last_asset |-> ""]
             ELSE IF answer = "asset"
             THEN [calls |-> calls + 1, found |-> TRUE, source |-> candidates[i],
                   last_asset |-> "COMMON STOCK"]
             ELSE TryCandidates(candidates, i + 1, calls + 1, budget, responses)

\* av_overview_asset_type(symbol_t): the value returned, _av_calls and CACHE
\* after the call
AvOverviewAssetType(config, calls, cache, now, symbol_t, responses) ==
    IF ~config.key \/ ~config.filter
    THEN [returned |-> "", calls |-> calls, cache |-> cache]
    ELSE IF Fresh(cache, symbol_t, now)
    THEN [returned |-> Upper(cache[symbol_t].asset), calls |-> calls, cache |-> cache]
    ELSE IF BudgetReached(calls, config.budget)
    THEN [returned |-> "", calls |-> calls, cache |-> cache]
    ELSE LET tried == TryCandidates(SymbolVariants(symbol_t), 1, calls,
                                    config.budget, responses)
         IN  IF tried.found
             THEN [returned |-> tried.last_asset, calls |-> tried.calls,
                   cache |-> AvCachePut(cache, symbol_t,
                                        AvEntry(tried.last_asset, now))]
             ELSE [returned |-> tried.last_asset, calls |-> tried.calls,
                   cache |-> IF symbol_t \notin DOMAIN cache
                             THEN AvCachePut(cache, symbol_t,
                                             AvEntry(tried.last_asset, now))
                             ELSE cache]

InitAv ==
    /\ pc = "av"
    /\ NoProvider
    /\ NoScreening
    /\ NoMain
    /\ NoSummary
    /\ av_config \in AvConfigs
    /\ av_calls = 0
    /\ av_cache \in InitialCaches
    /\ av_now = FirstDay
    /\ av_requests = 0
    /\ av_last = <<>>

\* one call of av_overview_asset_type
AvCall ==
    /\ pc = "av"
    /\ \E symbol_t \in AvSymbols, responses \in ResponseLists :
          LET call == AvOverviewAssetType(av_config, av_calls, av_cache, av_now,
                                          symbol_t, responses)
          IN  /\ av_calls' = call.calls
              /\ av_cache' = call.cache
              /\ av_requests' = av_requests + (call.calls - av_calls)
              /\ av_last' = [symbol |-> symbol_t, returned |-> call.returned,
                             issued |-> call.calls - av_calls]
    /\ UNCHANGED <<pc, av_config, av_now>>
    /\ UNCHANGED outsideAv

\* time passes between two calls
AvTick ==
    /\ pc = "av"
    /\ \E d \in ClockDays : d > av_now /\ av_now' = d
    /\ UNCHANGED <<pc, av_config, av_calls, av_cache, av_requests, av_last>>
    /\ UNCHANGED outsideAv

NextAv ==
    \/ AvCall
    \/ AvTick

SpecAv == InitAv /\ [][NextAv]_vars

-----------------------------------------------------------------------------
(* Properties of the merges *)

\* positions, in processing order, of the records of flat the merge takes for date d
Candidates(flat, d) ==
    { n \in 1..Len(flat) : flat[n].end_date = d /\ ~flat[n].is_forecast }

YahooCandidates(flat, d) ==
    { n \in 1..Len(flat) :
        flat[n].end_date = d /\ ~flat[n].is_forecast /\ flat[n].source = "yahoo_jp" }

MaxOf(S) == CHOOSE n \in S : \A m \in S : m <= n

\* the records of the result with end_date d
ResultAt(d) == { k \in 1..Len(result) : result[k].end_date = d }

YahooKept ==
    pc = "done" =>
        LET flat == Flatten(record_sets)
        IN  \A d \in Dates :
                YahooCandidates(flat, d) # {} =>
                    /\ ResultAt(d) # {}
                    /\ \A k \in ResultAt(d) : result[k].source = "yahoo_jp"

YahooSlotStays ==
    (pc = "loop" /\ pc' = "loop") =>
        \A n \in 1..Len(merged) :
            merged[n].value.source = "yahoo_jp" =>
                \E n2 \in 1..Len(merged') :
                    /\ merged'[n2].key = merged[n].key
                    /\ merged'[n2].value.source = "yahoo_jp"

\* C1: in _merge_annual and _merge_quarterly a slot held by a "yahoo_jp" record
\* never passes to a record of another source, and whenever the inputs hold a
\* non-forecast "yahoo_jp" record for an end_date the output record of that
\* end_date has source "yahoo_jp".
C1_YahooNeverReplaced == []YahooKept /\ [][YahooSlotStays]_vars

\* a finished merge where a "yahoo_jp" record was followed by a record of
\* another source on the same date
C1_Witness ==
    /\ pc = "done"
    /\ LET flat == Flatten(record_sets)
       IN  \E d \in Dates : \E y \in YahooCandidates(flat, d) :
             /\ \E n \in Candidates(flat, d) : n > y /\ flat[n].source # "yahoo_jp"
             /\ \E k \in ResultAt(d) : result[k] = flat[y]

\* C2: no forecast record appears in the output of _merge_annual, and every
\* end_date that has a non-forecast input record has a non-forecast output
\* record, whatever forecast records share the date and wherever they stand.
C2_ForecastNeverMerged ==
    (pc = "done" /\ kind = "annual") =>
        LET flat == Flatten(record_sets)
        IN  /\ \A k \in 1..Len(result) : ~result[k].is_forecast
            /\ \A d \in Dates :
                 LET cands == Candidates(flat, d)
                 IN  IF cands = {} THEN ResultAt(d) = {}
                     ELSE \E k \in ResultAt(d) : \E n \in cands : result[k] = flat[n]

\* a finished annual merge whose inputs hold a forecast record before and a
\* forecast record after a non-forecast record of the same date
C2_Witness ==
    /\ pc = "done"
    /\ kind = "annual"
    /\ LET flat == Flatten(record_sets)
       IN  /\ Len(flat) = 3
           /\ flat[1].is_forecast
           /\ ~flat[2].is_forecast
           /\ flat[3].is_forecast
           /\ flat[1].end_date = flat[2].end_date
           /\ flat[3].end_date = flat[2].end_date
           /\ result = <<flat[2]>>

\* C3: the list returned by either merge has strictly decreasing end_date
\* values: at most one record per end_date, most recent first.
C3_StrictlyDescending ==
    pc = "done" =>
        \A k \in 1..(Len(result) - 1) :
            DateLess(result[k + 1].end_date, result[k].end_date)

\* a finished merge that returns three records, given in another order
C3_Witness ==
    /\ pc = "done"
    /\ Len(result) = 3
    /\ LET flat == Flatten(record_sets)
       IN  /\ DateLess(flat[1].end_date, flat[3].end_date)
           /\ DateLess(flat[3].end_date, flat[2].end_date)

\* C4: the output record of an end_date is the last "yahoo_jp" record processed
\* for it when there is one, and otherwise the last record processed for it.
C4_LaterRecordWins ==
    pc = "done" =>
        LET flat == Flatten(record_sets)
        IN  \A d \in Dates :
                LET cands == Candidates(flat, d)
                    yahoo == YahooCandidates(flat, d)
                IN  /\ Cardinality(ResultAt(d)) <= 1
                    /\ (cands # {} /\ yahoo = {}) =>
                          \E k \in ResultAt(d) : result[k] = flat[MaxOf(cands)]
                    /\ yahoo # {} =>
                          \E k \in ResultAt(d) : result[k] = flat[MaxOf(yahoo)]

\* a finished merge with two records of one source on one date, in two lists
C4_Witness ==
    /\ pc = "done"
    /\ Len(record_sets) = 2
    /\ Len(record_sets[1]) = 1
    /\ Len(record_sets[2]) = 1
    /\ record_sets[1][1].end_date = record_sets[2][1].end_date
    /\ record_sets[1][1].source = record_sets[2][1].source
    /\ ~record_sets[1][1].is_forecast
    /\ ~record_sets[2][1].is_forecast
    /\ result = <<record_sets[2][1]>>

-----------------------------------------------------------------------------
(* Properties of FinancialDataProvider *)

\* C6: in get_annual and get_quarterly an adapter that raises contributes the
\* empty list: the result is the merge of the other adapter's list, the empty
\* list when both raise, and no exception reaches the caller; get_company_info
\* returns None, without raising, when the adapter raises.
C6_AdapterFailureIsEmpty ==
    LET kab == last_call.kabutan
        yah == last_call.yahoo
        MergeOf(sets) == IF last_call.api = "get_annual" THEN MergeAnnual(sets)
                         ELSE MergeQuarterly(sets)
    IN  /\ last_call.api \in {"get_annual", "get_quarterly"} =>
              /\ ~last_call.escaped
              /\ (kab.raised /\ ~yah.raised) => last_call.records = MergeOf(<<yah.records>>)
              /\ (~kab.raised /\ yah.raised) => last_call.records = MergeOf(<<kab.records>>)
              /\ (kab.raised /\ yah.raised) => last_call.records = <<>>
        /\ (last_call.api = "get_company_info" /\ last_call.invoked
                /\ last_call.info_out.raised) =>
              /\ ~last_call.escaped
              /\ last_call.info = NoInfo

\* get_annual returned the record of the yahoo adapter although the kabutan
\* adapter raised
C6_Witness ==
    /\ last_call.api = "get_annual"
    /\ last_call.kabutan.raised
    /\ ~last_call.yahoo.raised
    /\ Len(last_call.yahoo.records) = 1
    /\ last_call.records = last_call.yahoo.records

\* C7: once a get_company_info(symbol) call has returned an info, the adapter
\* is not invoked again for that symbol, the cache entry of the symbol stays
\* that object, and every later call for the symbol returns that object.
C7_CachePopulatedOnce ==
    \A s \in Symbols :
        /\ calls_after[s] = 0
        /\ first_info[s] # NoInfo => CacheGet(info_cache, s) = first_info[s]
        /\ (last_call.api = "get_company_info" /\ last_call.symbol = s
                /\ first_info[s] # NoInfo) =>
              /\ ~last_call.escaped
              /\ last_call.info = first_info[s]

\* a call answered from the cache, for a symbol whose first adapter call gave
\* nothing, while the other symbol is cached too
C7_Witness ==
    /\ last_call.api = "get_company_info"
    /\ ~last_call.invoked
    /\ last_call.info # NoInfo
    /\ last_call.info = first_info[last_call.symbol]
    /\ adapter_calls[last_call.symbol] = 2
    /\ \A s \in Symbols : s \in DOMAIN info_cache

\* every entry of the cache is still there, with the same object
EntriesKept ==
    \A s \in DOMAIN info_cache :
        s \in DOMAIN info_cache' /\ info_cache'[s] = info_cache[s]

\* what a get_company_info call does to the cache
CompanyInfoCallEffect ==
    (pc = "provider" /\ last_call'.api = "get_company_info") =>
        LET symbol == last_call'.symbol
        IN  /\ symbol \notin DOMAIN info_cache => last_call'.invoked
            /\ last_call'.info = NoInfo => info_cache' = info_cache
            /\ info_cache' # info_cache =>
                  /\ last_call'.invoked /\ ~last_call'.info_out.raised
                  /\ last_call'.info # NoInfo
                  /\ symbol \notin DOMAIN info_cache
                  /\ DOMAIN info_cache' = DOMAIN info_cache \cup {symbol}
                  /\ info_cache'[symbol] = last_call'.info

\* C28: a get_company_info(symbol) call that obtains no info, the adapter
\* having raised or returned nothing, leaves the cache unchanged, so that the
\* next call for the symbol invokes the adapter again; only a successful
\* lookup adds an entry, and no entry is ever removed or changed.
C28_FailedLookupLeavesCache ==
    [][EntriesKept /\ CompanyInfoCallEffect]_vars

\* the adapter is invoked again for a symbol after a lookup that gave nothing,
\* and gives nothing again, while the cache holds the other symbol
C28_Witness ==
    /\ pc = "returned"
    /\ last_call.api = "get_company_info"
    /\ last_call.invoked
    /\ last_call.info = NoInfo
    /\ adapter_calls[last_call.symbol] >= 2
    /\ last_call.symbol \notin DOMAIN info_cache
    /\ DOMAIN info_cache # {}

-----------------------------------------------------------------------------
(* Properties of score and official_checks *)

\* a value that is there and at least 20%
Reaches20(v) == v.t \in {"num", "root", "pinf"} /\ GE(v, 20, 100)

\* the annual checks that are satisfied
AnnualSatisfied ==
    { c \in {"stable_5_10", "no_big_drop"} : annual_result[c] = "true" }
    \cup { c \in {"last1_yoy", "last2_cagr"} : Reaches20(annual_result[c]) }

\* the quarterly checks that are satisfied
QuarterlySatisfied ==
    { c \in {"lastQ_ok", "sequential_ok", "accelerating", "improving_margin"} :
        quarterly_result[c] = "true" }

\* C8: the value score() returns is an integer from 0 to 8 and is the number of
\* satisfied checks, the four annual ones counted only when enough_years holds
\* and the four quarterly ones only when enough_quarters holds.
C8_ScoreCountsSatisfiedChecks ==
    pc \in {"scored", "official"} =>
        /\ sc.s \in 0..8
        /\ sc.s = (IF annual_result.enough_years
                   THEN Cardinality(AnnualSatisfied) ELSE 0)
                + (IF quarterly_result.enough_quarters
                   THEN Cardinality(QuarterlySatisfied) ELSE 0)

\* score() has run on two annual periods that satisfy a check without being
\* enough, next to quarters that satisfy all four
C8_Witness ==
    /\ pc = "scored"
    /\ ~annual_result.enough_years
    /\ AnnualSatisfied # {}
    /\ quarterly_result.enough_quarters
    /\ sc.s = 4

\* C9: official_checks returns as score the number of rules that are true and
\* as applicable the number of rules that are not absent, and
\* 0 <= score <= applicable <= 8.
C9_OfficialCounts ==
    pc = "official" =>
        LET metrics == official_result.metrics
            true_rules == { r \in DOMAIN metrics : metrics[r] = "true" }
            present_rules == { r \in DOMAIN metrics : metrics[r] \in {"true", "false"} }
        IN  /\ official_result.score = Cardinality(true_rules)
            /\ official_result.applicable = Cardinality(present_rules)
            /\ 0 <= official_result.score
            /\ official_result.score <= official_result.applicable
            /\ official_result.applicable <= 8

\* official_checks has run with some rules absent, some false and some true
C9_Witness ==
    /\ pc = "official"
    /\ official_result.applicable = 5
    /\ official_result.score = 3

\* a derived value that could not be computed: None or NaN
Absent(v) == v.t \in {"none", "nan"}

\* no value of the list could be computed
NoneComputable(vs) == \A i \in 1..Len(vs) : Absent(vs[i])

\* C10: a rule of official_checks is absent exactly when its inputs are not
\* computable, and never false for that reason: rule 2 when avg_growth is
\* absent, rule 3 when there is no annual YoY value, rule 4 when last1_yoy or
\* last2_cagr is absent, rules 5 and 6 when no recent revenue / profit YoY is
\* computable, rule 7 when either series is empty, rule 8 when there is no P/E.
C10_AbsentExactlyWhenNotComputable ==
    pc = "official" =>
        LET metrics == official_result.metrics
            no_annual_yoy == NoneComputable(annual_result.yoy_values)
            no_recent_revenue == NoneComputable(quarterly_result.recent_revenue_yoy)
            no_recent_profit == NoneComputable(quarterly_result.recent_profit_yoy)
        IN  /\ metrics.rule3_growth = "none" <=> Absent(annual_result.avg_growth)
            /\ metrics.rule3_no_decline = "none" <=> no_annual_yoy
            /\ metrics.rule4_recent20 = "none" <=>
                   (Absent(annual_result.last1_yoy) \/ Absent(annual_result.last2_cagr))
            /\ metrics.rule5_sales = "none" <=> no_recent_revenue
            /\ metrics.rule6_profit = "none" <=> no_recent_profit
            /\ metrics.rule7_resilience = "none" <=> (no_recent_profit \/ no_annual_yoy)
            /\ metrics.rule8_per = "none" <=>
                   (~fetched_info.present \/ Absent(fetched_info.per))

\* the notes of sc that are among the given ones, in order
NotesAmong(tags) == SelectSeq(sc.notes, LAMBDA n : n \in tags)

AnnualCheckNames == {"stable_5_10", "no_big_drop", "last1_yoy", "last2_cagr"}
QuarterlyCheckNames == {"lastQ_ok", "sequential_ok", "accelerating", "improving_margin"}

\* C11: in score(), a family with insufficient data adds no point and exactly
\* one data-insufficient note in place of its four per-check notes; a family
\* with sufficient data adds one note per unsatisfied check and none per
\* satisfied check, so that its points and its notes add up to 4.
C11_NotesPerFamily ==
    pc \in {"scored", "official"} =>
        LET annual_notes == NotesAmong(AnnualCheckNames)
            quarterly_notes == NotesAmong(QuarterlyCheckNames)
            annual_short == NotesAmong({"annual_insufficient"})
            quarterly_short == NotesAmong({"quarterly_insufficient"})
            Once(notes, names) ==
                /\ Len(notes) = Cardinality(names)
                /\ { notes[i] : i \in 1..Len(notes) } = names
        IN  /\ IF annual_result.enough_years
               THEN /\ annual_short = <<>>
                    /\ Once(annual_notes, AnnualCheckNames \ AnnualSatisfied)
               ELSE /\ Len(annual_short) = 1
                    /\ annual_notes = <<>>
            /\ IF quarterly_result.enough_quarters
               THEN /\ quarterly_short = <<>>
                    /\ Once(quarterly_notes, QuarterlyCheckNames \ QuarterlySatisfied)
               ELSE /\ Len(quarterly_short) = 1
                    /\ quarterly_notes = <<>>
            /\ sc.s + Len(sc.notes)
                 = (IF annual_result.enough_years THEN 4 ELSE 1)
                   + (IF quarterly_result.enough_quarters THEN 4 ELSE 1)

\* score() has run on two annual periods, which are not enough although they
\* satisfy a check, and on five quarters of which some checks fail
C11_Witness ==
    /\ pc = "scored"
    /\ ~annual_result.enough_years
    /\ AnnualSatisfied # {}
    /\ quarterly_result.enough_quarters
    /\ NotesAmong({"annual_insufficient"}) = <<"annual_insufficient">>
    /\ Len(NotesAmong(QuarterlyCheckNames)) \in 1..3

\* the quality rules that depend on the annual timeline, and on the quarterly
AnnualRules == {"rule3_growth", "rule3_no_decline", "rule4_recent20", "rule7_resilience"}
QuarterlyRules == {"rule5_sales", "rule6_profit", "rule7_resilience"}

\* the rules of the set are all absent from the applicable denominator
Excluded(rules) == \A r \in rules : official_result.metrics[r] = "none"

\* C12: with fewer than 3 annual periods every quality rule that depends on
\* the annual timeline (rules 2, 3, 4, 7) is excluded from the applicable
\* denominator and adds nothing to the score; likewise rules 5, 6, 7 with
\* fewer than 5 quarters.
C12_ShortTimelineExcludesRules ==
    pc = "official" =>
        /\ Len(annual_df) < 3 => Excluded(AnnualRules)
        /\ Len(quarterly_df) < 5 => Excluded(QuarterlyRules)

\* the quarterly half of C12 alone
ShortQuarterlyExcludesRules ==
    pc = "official" => (Len(quarterly_df) < 5 => Excluded(QuarterlyRules))

\* C13: annual_checks on fewer than 3 periods reports enough_years false and
\* every derived check absent, neither false nor a computed value, and
\* quarterly_checks on fewer than 5 quarters does the same, also for the
\* timelines of 1-2 annual periods and of 1-4 quarters.
C13_ShortTimelineChecksAbsent ==
    /\ (pc \in {"annual", "quarterly", "scored", "official"} /\ Len(annual_df) < 3) =>
          /\ ~annual_result.enough_years
          /\ \A c \in {"stable_5_10", "no_big_drop", "no_decline_small"} :
                annual_result[c] = "absent"
          /\ \A c \in {"avg_growth", "last1_yoy", "last2_cagr"} :
                annual_result[c] = NoneV
    /\ (pc \in {"quarterly", "scored", "official"} /\ Len(quarterly_df) < 5) =>
          /\ ~quarterly_result.enough_quarters
          /\ \A c \in QuarterlyCheckNames : quarterly_result[c] = "absent"

\* what holds of the short timelines: enough_years / enough_quarters is false
\* exactly below 3 periods / 5 quarters, and the checks are absent for the
\* empty timeline
ShortTimelineNotEnough ==
    /\ pc \in {"annual", "quarterly", "scored", "official"} =>
          /\ annual_result.enough_years <=> Len(annual_df) >= 3
          /\ annual_df = <<>> => annual_result = AnnualEmptyResult
    /\ pc \in {"quarterly", "scored", "official"} =>
          /\ quarterly_result.enough_quarters <=> Len(quarterly_df) >= 5
          /\ quarterly_df = <<>> => quarterly_result = QuarterlyEmptyResult

\* a derived value that came out of a division by zero
FromZeroDivision(v) == v.t \in {"pinf", "ninf"}

\* C15: when the denominator of a YoY or margin computation is zero, or an
\* operand is null, exactly that derived value is absent: it neither satisfies
\* nor fails a threshold, earns no momentum point, is left out of avg_growth
\* and makes no quality rule applicable.
C15_ZeroDenominatorIsAbsent ==
    pc \in {"annual", "quarterly", "scored", "official"} =>
        /\ \A i \in 1..Len(annual_result.yoy_values) :
              ~FromZeroDivision(annual_result.yoy_values[i])
        /\ ~FromZeroDivision(annual_result.last1_yoy)
        /\ annual_result.avg_growth.t \in {"none", "num"}
        /\ (Len(annual_df) >= 3 /\ annual_df[3].ordinary_income = 0) =>
              Absent(annual_result.last2_cagr)
        /\ \A i \in 1..Len(quarterly_result.recent_profit_yoy) :
              ~FromZeroDivision(quarterly_result.recent_profit_yoy[i])
        /\ \A i \in 1..Len(quarterly_result.recent_revenue_yoy) :
              ~FromZeroDivision(quarterly_result.recent_revenue_yoy[i])

\* what holds of the null-by-null case: a YoY value of 0/0 is NaN and is left
\* out of yoy_values, and nothing of annual_checks is NaN but last2_cagr and
\* avg_growth
ZeroByZeroIsDropped ==
    pc \in {"annual", "quarterly", "scored", "official"} =>
        /\ \A i \in 1..Len(annual_result.yoy_values) :
              ~IsNA(annual_result.yoy_values[i])
        /\ annual_result.last1_yoy.t # "nan"

\* the YoY values of the window of the 5 most recent periods
WindowYoY == FirstN(AnnualYoY(annual_df), 5)

\* the places of the window whose YoY value is a number: both incomes are
\* there and the earlier one is not zero
ComputableYoY == { i \in 1..Len(WindowYoY) : WindowYoY[i].t = "num" }

\* the places of the window whose YoY value dropna keeps: every value but NaN
KeptYoY == { i \in 1..Len(WindowYoY) : ~IsNA(WindowYoY[i]) }

\* annual_checks has run on a frame that is not empty
AnnualChecked ==
    /\ pc \in {"annual", "quarterly", "scored", "official"}
    /\ annual_df # <<>>

\* C19: stable_5_10 is true exactly when the window of the 5 most recent
\* periods holds at least 3 computable YoY values and every one of them lies
\* in [0.05, 0.10]; otherwise it is false.
C19_StableGrowthOverComputable ==
    AnnualChecked =>
        annual_result.stable_5_10 =
            Tri(/\ Cardinality(ComputableYoY) >= 3
                /\ \A i \in ComputableYoY :
                      GE(WindowYoY[i], 5, 100) /\ LE(WindowYoY[i], 10, 100))

\* what holds of stable_5_10: the same over the values dropna keeps, those of
\* a division by zero among them
StableGrowthOverKept ==
    AnnualChecked =>
        annual_result.stable_5_10 =
            Tri(/\ Cardinality(KeptYoY) >= 3
                /\ \A i \in KeptYoY :
                      GE(WindowYoY[i], 5, 100) /\ LE(WindowYoY[i], 10, 100))

\* stable_5_10 is true of seven periods whose YoY value outside the window is
\* a fall of more than 40%
StableGrowthOfLongFrame ==
    /\ AnnualChecked
    /\ Len(annual_df) > 6
    /\ annual_result.stable_5_10 = "true"

\* C20: no_big_drop is true exactly when every YoY value of the 5-period
\* window is strictly greater than -0.20, and no_decline_small exactly when
\* every one is >= -0.05; a YoY value that cannot be computed does not count
\* against either check. Stated of the windows that hold a computable value.
C20_NoDropOverComputable ==
    (AnnualChecked /\ ComputableYoY # {}) =>
        /\ annual_result.no_big_drop =
              Tri(\A i \in ComputableYoY : GT(WindowYoY[i], -20, 100))
        /\ annual_result.no_decline_small =
              Tri(\A i \in ComputableYoY : GE(WindowYoY[i], -5, 100))

\* what holds of the two checks: each is true exactly when dropna keeps a
\* value and every value it keeps, those of a division by zero among them,
\* passes the bound
NoDropOverKept ==
    AnnualChecked =>
        /\ annual_result.no_big_drop =
              Tri(/\ KeptYoY # {}
                  /\ \A i \in KeptYoY : GT(WindowYoY[i], -20, 100))
        /\ annual_result.no_decline_small =
              Tri(/\ KeptYoY # {}
                  /\ \A i \in KeptYoY : GE(WindowYoY[i], -5, 100))

\* a window whose every YoY value is 0/0: both checks are false
NoDropOfEmptySeries ==
    /\ AnnualChecked
    /\ Len(annual_df) >= 3
    /\ KeptYoY = {}
    /\ annual_result.no_big_drop = "false"
    /\ annual_result.no_decline_small = "false"

\* a fall of 6%: no_big_drop is true and no_decline_small false
NoDropOfSmallDecline ==
    /\ AnnualChecked
    /\ annual_result.no_big_drop = "true"
    /\ annual_result.no_decline_small = "false"

\* C21: last1_yoy is the YoY value of the most recent period,
\* (income[0] - income[1]) / income[1]; when that value cannot be computed
\* last1_yoy is absent, and it is never the YoY value of an older period.
C21_Last1IsMostRecentYoY ==
    AnnualChecked =>
        annual_result.last1_yoy =
            (IF IsNA(WindowYoY[1]) THEN NoneV ELSE WindowYoY[1])

\* what holds of last1_yoy: it is the first YoY value of the window that
\* dropna keeps, whichever period that value belongs to
Last1IsFirstKept ==
    AnnualChecked =>
        annual_result.last1_yoy =
            (IF KeptYoY = {} THEN NoneV
             ELSE WindowYoY[CHOOSE i \in KeptYoY : \A j \in KeptYoY : i <= j])

\* last1_yoy is the YoY value of the period before the most recent one
Last1OfOlderPeriod ==
    /\ AnnualChecked
    /\ IsNA(WindowYoY[1])
    /\ Len(WindowYoY) >= 2
    /\ annual_result.last1_yoy = WindowYoY[2]
    /\ annual_result.last1_yoy.t = "num"

\* the incomes at positions 0 and 2 of a frame of at least 3 periods
Income0 == annual_df[1].ordinary_income
Income2 == annual_df[3].ordinary_income

\* C22: last2_cagr is (income[0] / income[2]) ^ (1/2) - 1 on the incomes at
\* positions 0 and 2 of a timeline of at least 3 periods and absent on a
\* shorter one; hence for positive incomes last2_cagr >= 0.20 holds exactly
\* when income[0] >= 1.44 * income[2], whatever income[1] is.
C22_Last2CagrReaches20From144 ==
    AnnualChecked =>
        /\ Len(annual_df) < 3 => annual_result.last2_cagr = NoneV
        /\ Len(annual_df) >= 3 =>
              /\ annual_result.last2_cagr = RootMinusOne(FloatDiv(Income0, Income2))
              /\ (Income0 > 0 /\ Income2 > 0) =>
                    (AtLeast20(annual_result.last2_cagr)
                        <=> 100 * Income0 >= 144 * Income2)

\* what holds of last2_cagr: the formula on positions 0 and 2, and for
\* positive incomes the 20% check passes exactly above 1.44 * income[2]
Last2CagrReaches20Above144 ==
    AnnualChecked =>
        /\ Len(annual_df) < 3 => annual_result.last2_cagr = NoneV
        /\ Len(annual_df) >= 3 =>
              /\ annual_result.last2_cagr = RootMinusOne(FloatDiv(Income0, Income2))
              /\ (Income0 > 0 /\ Income2 > 0) =>
                    (AtLeast20(annual_result.last2_cagr)
                        <=> 100 * Income0 > 144 * Income2)

\* the 20% check of last2_cagr passes just above 1.44 * income[2]
Last2CagrJustAbove ==
    /\ AnnualChecked
    /\ Len(annual_df) = 3
    /\ Income0 = 145 /\ Income2 = 100
    /\ AtLeast20(annual_result.last2_cagr)

\* quarterly_checks has run on a frame that is not empty
QuarterlyChecked ==
    /\ pc \in {"quarterly", "scored", "official"}
    /\ quarterly_df # <<>>

\* the quarters, of the 3 most recent, whose YoY value at a lag of 4 periods
\* is a number
ComputableProfitQuarters ==
    { i \in 1..3 : i <= Len(quarterly_df)
                   /\ QuarterlyProfitYoY(quarterly_df)[i].t = "num" }

ComputableRevenueQuarters ==
    { i \in 1..3 : i <= Len(quarterly_df)
                   /\ QuarterlyRevenueYoY(quarterly_df)[i].t = "num" }

\* the quarters whose profit YoY is computable and >= 0.20, and those whose
\* revenue YoY is computable and >= 0.10
ProfitMeets ==
    { i \in ComputableProfitQuarters : GE(QuarterlyProfitYoY(quarterly_df)[i], 20, 100) }

RevenueMeets ==
    { i \in ComputableRevenueQuarters : GE(QuarterlyRevenueYoY(quarterly_df)[i], 10, 100) }

\* clause (a): both of the 2 most recent quarters meet both thresholds
ClauseA == {1, 2} \subseteq (ProfitMeets \cap RevenueMeets)

\* clause (b): at least 2 of the 3 most recent quarters meet the profit
\* threshold and at least 2 of them the revenue threshold
ClauseB ==
    /\ Cardinality(ProfitMeets) >= 2
    /\ Cardinality(RevenueMeets) >= 2

\* C23: sequential_ok is true exactly when clause (a) or clause (b) holds, the
\* counts of (b) taken independently, an uncomputable YoY value counting as
\* not meeting its threshold.
C23_SequentialOk ==
    QuarterlyChecked =>
        quarterly_result.sequential_ok = Tri(ClauseA \/ ClauseB)

\* the quarters, of the 3 most recent, whose YoY value passes the comparison
\* of the code, which +inf passes
ProfitPasses ==
    { i \in 1..3 : i <= Len(quarterly_df)
                   /\ GE(QuarterlyProfitYoY(quarterly_df)[i], 20, 100) }

RevenuePasses ==
    { i \in 1..3 : i <= Len(quarterly_df)
                   /\ GE(QuarterlyRevenueYoY(quarterly_df)[i], 10, 100) }

\* what holds of sequential_ok: clauses (a) and (b) over the values that pass
\* the comparisons
SequentialOverPassing ==
    QuarterlyChecked =>
        quarterly_result.sequential_ok =
            Tri(\/ {1, 2} \subseteq (ProfitPasses \cap RevenuePasses)
                \/ /\ Cardinality(ProfitPasses) >= 2
                   /\ Cardinality(RevenuePasses) >= 2)

\* sequential_ok is true by clause (b) with the two counts on different
\* quarters
SequentialByIndependentCounts ==
    /\ QuarterlyChecked
    /\ quarterly_result.sequential_ok = "true"
    /\ ~ClauseA
    /\ ProfitMeets # RevenueMeets
    /\ Cardinality(ProfitMeets \cap RevenueMeets) = 1

\* clauses (a) and (b) of sequential_ok over the YoY values as
\* quarterly_checks compares them
PassingClauseA == {1, 2} \subseteq (ProfitPasses \cap RevenuePasses)

PassingClauseB ==
    /\ Cardinality(ProfitPasses) >= 2
    /\ Cardinality(RevenuePasses) >= 2

\* C26: for every quarterly timeline clause (a) of sequential_ok implies
\* clause (b), so sequential_ok is clause (b) alone: at least 2 of the 3 most
\* recent profit YoY >= 0.20 and at least 2 of the 3 most recent revenue YoY
\* >= 0.10.
C26_SequentialIsClauseB ==
    QuarterlyChecked =>
        /\ PassingClauseA => PassingClauseB
        /\ quarterly_result.sequential_ok = Tri(PassingClauseB)

\* sequential_ok is true of quarters whose most recent one fails lastQ_ok
C26_Witness ==
    /\ QuarterlyChecked
    /\ quarterly_result.enough_quarters
    /\ quarterly_result.sequential_ok = "true"
    /\ quarterly_result.lastQ_ok = "false"
    /\ ~PassingClauseA

\* clause (a) holds of the quarters
SequentialByClauseA ==
    /\ QuarterlyChecked
    /\ PassingClauseA
    /\ quarterly_result.sequential_ok = "true"

\* quarterly_checks and official_checks have run on exactly 5 quarters
FiveQuartersChecked ==
    /\ pc = "official"
    /\ Len(quarterly_df) = 5

\* C27: of exactly 5 quarters only the most recent one has a YoY value, so
\* sequential_ok and accelerating are false whatever the figures, and quality
\* rules 5 and 6 are false, not absent, and counted in applicable whenever
\* that one YoY value is computable.
C27_FiveQuartersHaveOneYoY ==
    FiveQuartersChecked =>
        LET profit_yoy == QuarterlyProfitYoY(quarterly_df)
            revenue_yoy == QuarterlyRevenueYoY(quarterly_df)
            metrics == official_result.metrics
        IN  /\ \A i \in 2..5 : IsNA(profit_yoy[i]) /\ IsNA(revenue_yoy[i])
            /\ quarterly_result.sequential_ok = "false"
            /\ quarterly_result.accelerating = "false"
            /\ revenue_yoy[1].t = "num" =>
                  /\ metrics.rule5_sales = "false"
                  /\ official_result.applicable
                        = 1 + Cardinality({ r \in RuleNames \ {"rule5_sales"} :
                                              metrics[r] # "none" })
            /\ profit_yoy[1].t = "num" =>
                  /\ metrics.rule6_profit = "false"
                  /\ official_result.applicable
                        = 1 + Cardinality({ r \in RuleNames \ {"rule6_profit"} :
                                              metrics[r] # "none" })

\* exactly 5 quarters whose one YoY pair meets both thresholds: lastQ_ok is
\* true, rules 5 and 6 are false
C27_Witness ==
    /\ FiveQuartersChecked
    /\ quarterly_result.lastQ_ok = "true"
    /\ official_result.metrics.rule5_sales = "false"
    /\ official_result.metrics.rule6_profit = "false"
    /\ quarterly_result.sequential_ok = "false"

\* C18: the Score column of a report row, which is the total score() returns
\* for the symbol's annual and quarterly checks, lies between 0 and 7: the
\* stable-growth check and the check of 20% growth in the last year are never
\* satisfied together, so the summary's score/7 is at most 7/7.
C18_ScoreColumnAtMostSeven ==
    pc \in {"scored", "official"} =>
        /\ sc.s \in 0..NEW_HIGH_MAX_SCORE
        /\ sc.s = Score(annual_result, quarterly_result).s
        /\ ~(annual_result.stable_5_10 = "true" /\ Reaches20(annual_result.last1_yoy))

\* score() has given a symbol the seven points that can be had
C18_Witness ==
    /\ pc = "scored"
    /\ annual_result.enough_years
    /\ quarterly_result.enough_quarters
    /\ sc.s = NEW_HIGH_MAX_SCORE

-----------------------------------------------------------------------------
(* Properties of main() *)

\* the symbols that have a row
RowSymbols == { rows[j].symbol : j \in 1..Len(rows) }

\* the symbols of the batch
BatchSymbols == { symbols[i] : i \in 1..Len(symbols) }

\* AppendRow has just appended the row of a symbol that has no usable period
UnusableRowAppended ==
    /\ pc = "loop"
    /\ official_result # NoOfficial
    /\ annual_df = <<>>
    /\ quarterly_df = <<>>

\* C14: a symbol that cannot be scored at all, for want of usable annual or
\* quarterly data after the retries, still has a row, with momentum score 0,
\* quality score 0/0 and notes; no symbol of the batch is left out of the rows.
C14_UnscorableSymbolHasRow ==
    /\ pc = "report" => BatchSymbols \subseteq RowSymbols
    /\ UnusableRowAppended =>
          LET row == rows[Len(rows)]
          IN  /\ row.score_0to7 = 0
              /\ row.official_score = 0
              /\ row.official_applicable = 0
              /\ row.notes # <<>>

\* what holds instead: at the end every symbol of the batch has a row or an
\* entry in errors, the latter exactly when fetch_financials returned nothing
EverySymbolAccountedFor ==
    pc = "report" =>
        /\ BatchSymbols = RowSymbols \cup { errors[j] : j \in 1..Len(errors) }
        /\ Len(rows) + Len(errors) = Len(symbols)

\* the row of a symbol with records but no usable period: score 0, and a
\* quality score that counts rule 1, and rule 8 when there is a P/E
UnusableRowCountsRule1 ==
    UnusableRowAppended =>
        LET row == rows[Len(rows)]
        IN  /\ row.score_0to7 = 0
            /\ row.metrics.rule1_new_high = "true"
            /\ row.official_score >= 1
            /\ row.official_applicable \in {1, 2}
            /\ \A r \in AnnualRules \cup QuarterlyRules : row.metrics[r] = "none"

\* the company infos a symbol can get from its own data: none where the
\* adapter failed, or the one with its own P/E
OwnInfos(symbol) ==
    { [present |-> FALSE, per |-> NoneV], [present |-> TRUE, per |-> per_of[symbol]] }

\* the row is one a symbol can get from its own data: what the provider has
\* for it, or nothing where the adapters failed
IsOwnRow(row) ==
    \E annual_list \in {financials_of[row.symbol].annual, <<>>},
       quarterly_list \in {financials_of[row.symbol].quarterly, <<>>},
       company \in OwnInfos(row.symbol) :
        row = ScreenSymbol(row.symbol, annual_list, quarterly_list, company)

\* the loop has just appended the row of a symbol
RowJustAppended == pc = "loop" /\ official_result # NoOfficial

\* C16: the row of a symbol is a function of the annual timeline, the
\* quarterly timeline and the company info of that symbol only, whatever
\* symbols are processed before or after it and whether or not one failed:
\* the row just appended is computed from what the helpers returned for the
\* symbol, which is the symbol's own data, and every row of the report is a
\* row its symbol can get from its own data.
C16_RowDependsOnOwnDataOnly ==
    /\ RowJustAppended =>
          LET symbol == symbols[idx - 1]
          IN  /\ rows # <<>>
              /\ annual_records \in {financials_of[symbol].annual, <<>>}
              /\ quarterly_records \in {financials_of[symbol].quarterly, <<>>}
              /\ fetched_info \in OwnInfos(symbol)
              /\ rows[Len(rows)] = ScreenSymbol(symbol, annual_records,
                                                quarterly_records, fetched_info)
    /\ pc = "report" => \A j \in 1..Len(rows) : IsOwnRow(rows[j])

\* two symbols with different P/E have both been given a row, the second
\* after the info of the first went into the cache
C16_Witness ==
    /\ pc = "report"
    /\ Len(rows) = 2
    /\ rows[1].symbol # rows[2].symbol
    /\ DOMAIN info_cache = {rows[1].symbol, rows[2].symbol}
    /\ rows[1].per # rows[2].per

\* an attempt yielded data: a non-empty annual or quarterly list, or an info
AttemptYields(entry) ==
    IF Len(entry) = 2 THEN entry[1] # <<>> \/ entry[2] # <<>> ELSE entry[1] # NoInfo

\* the attempts of the helper that is running or has just returned: at most
\* FINANCIAL_RETRY_ATTEMPTS + 1, and none after one that yielded data
AttemptsBounded ==
    /\ Len(attempt_log) <= FINANCIAL_RETRY_ATTEMPTS + 1
    /\ \A i \in 1..(Len(attempt_log) - 1) : ~AttemptYields(attempt_log[i])

\* what a helper returns is the result of its last attempt, which is the first
\* that yielded data or else attempt FINANCIAL_RETRY_ATTEMPTS + 1
ReturnsLastAttempt ==
    /\ pc = "fetched" =>
          /\ attempt_log # <<>>
          /\ <<annual_records, quarterly_records>> = attempt_log[Len(attempt_log)]
          /\ \/ AttemptYields(attempt_log[Len(attempt_log)])
             \/ /\ Len(attempt_log) = FINANCIAL_RETRY_ATTEMPTS + 1
                /\ annual_records = <<>>
                /\ quarterly_records = <<>>
    /\ pc = "info_fetched" =>
          /\ attempt_log # <<>>
          /\ fetched_info = InfoArg(attempt_log[Len(attempt_log)][1], per_of)
          /\ \/ AttemptYields(attempt_log[Len(attempt_log)])
             \/ /\ Len(attempt_log) = FINANCIAL_RETRY_ATTEMPTS + 1
                /\ ~fetched_info.present

\* C17: fetch_financials and fetch_company_info make at most
\* FINANCIAL_RETRY_ATTEMPTS + 1 attempts, stop at the first attempt that yields
\* data and return its result without a further provider call, return the
\* empty result after the last attempt when none yields anything, and always
\* terminate.
C17_RetryUntilData ==
    /\ [](AttemptsBounded /\ ReturnsLastAttempt)
    /\ (pc = "fetch_financials") ~> (pc = "fetched")
    /\ (pc = "fetch_company_info") ~> (pc = "info_fetched")

\* fetch_financials has returned the data of its second attempt after a first
\* attempt that yielded nothing
C17_Witness ==
    /\ pc = "fetched"
    /\ Len(attempt_log) = 2
    /\ ~AttemptYields(attempt_log[1])
    /\ AttemptYields(attempt_log[2])
    /\ annual_records # <<>>

\* every row of the report holds a score of 0 to 7
RowsScoreAtMostSeven ==
    \A j \in 1..Len(rows) : rows[j].score_0to7 \in 0..NEW_HIGH_MAX_SCORE

\* the places of a list that hold a symbol
Places(list, symbol) == { j \in 1..Len(list) : list[j] = symbol }

\* the symbols of the rows, in the order of the rows
RowSymbolList == [j \in 1..Len(rows) |-> rows[j].symbol]

\* the symbols the loop has processed
Processed == SubSeq(symbols, 1, idx - 1)

\* C24: every symbol main() has processed is accounted for exactly once, by a
\* row or by an entry of errors and never by both, so rows + errors is the
\* number of symbols processed; missing data or an exception on one symbol
\* does not keep the symbols after it from being processed, and the report is
\* written when all are.
C24_EverySymbolAccountedOnce ==
    pc \in {"loop", "report"} =>
        /\ \A symbol \in Symbols :
              Cardinality(Places(RowSymbolList, symbol))
                + Cardinality(Places(errors, symbol))
              = Cardinality(Places(Processed, symbol))
        /\ Len(rows) + Len(errors) = Len(Processed)
        /\ pc = "report" => Processed = symbols

\* the report is written with a row for the symbol that came after a symbol
\* that went to errors
C24_Witness ==
    /\ pc = "report"
    /\ Len(symbols) = MaxBatch
    /\ symbols[1] # symbols[2]
    /\ errors = <<symbols[1]>>
    /\ Len(rows) = 1
    /\ rows[1].symbol = symbols[2]

\* a symbol has gone to errors by an exception, with records fetched
ErrorByException ==
    /\ pc = "loop"
    /\ idx > 1
    /\ errors # <<>>
    /\ errors[Len(errors)] = symbols[idx - 1]
    /\ annual_records # <<>>

\* the momentum sub-flags of a row
AnnualFlags == {"nh_stable_growth", "nh_no_big_drop", "nh_last1_20", "nh_last2_20"}
QuarterlyFlags == {"q_last_ok_20_10", "q_seq_ok", "q_accelerating", "q_improving_margin"}

\* the flags of a set that are true in a row
TrueFlags(row, flags) == { f \in flags : row[f] = "true" }

\* C25: in every row main() builds, score_0to7 is the number of true values
\* among the eight momentum sub-flags of the same row, also when the annual
\* or the quarterly data is insufficient.
C25_ScoreCountsTrueFlags ==
    \A j \in 1..Len(rows) :
        rows[j].score_0to7
            = Cardinality(TrueFlags(rows[j], AnnualFlags \cup QuarterlyFlags))

\* what holds of a row: the score is the number of true flags when the annual
\* periods are enough, and the number of true quarterly flags when they are
\* not, which is when nh_stable_growth is None
ScoreCountsFlagsOfEnoughYears ==
    \A j \in 1..Len(rows) :
        rows[j].score_0to7
            = Cardinality(TrueFlags(rows[j],
                            IF rows[j].nh_stable_growth = "none" THEN QuarterlyFlags
                            ELSE AnnualFlags \cup QuarterlyFlags))

\* a row of score 7 with seven true flags
SevenTrueFlags ==
    \E j \in 1..Len(rows) :
        /\ rows[j].score_0to7 = 7
        /\ Cardinality(TrueFlags(rows[j], AnnualFlags \cup QuarterlyFlags)) = 7


-----------------------------------------------------------------------------
(* Properties of _select_best_entries *)

SummaryReturned == pc = "returned" /\ score_fn # "none"

\* the threshold of the section, read off the row
PassesThreshold(fn, row) ==
    IF fn = "new_high"
    THEN row.score_new_high >= 6
    ELSE /\ row.official_score # NoInt
         /\ row.official_applicable # NoInt
         /\ row.official_applicable.v > 0
         /\ 4 * row.official_score.v >= 3 * row.official_applicable.v

QualifyingRows ==
    { summary_rows[i] : i \in { j \in 1..Len(summary_rows) :
                                  PassesThreshold(score_fn, summary_rows[j]) } }

\* the score of a qualifying row a is below that of a qualifying row b
RowScoreBelow(fn, a, b) ==
    IF fn = "new_high"
    THEN a.score_new_high < b.score_new_high
    ELSE a.official_score.v * b.official_applicable.v
           < b.official_score.v * a.official_applicable.v

RowScoreSame(fn, a, b) == ~RowScoreBelow(fn, a, b) /\ ~RowScoreBelow(fn, b, a)

EverySymbolWithQualifyingRowKept ==
    SummaryReturned =>
        \A r \in QualifyingRows :
            \E i \in 1..Len(entries) : entries[i].row.symbol = r.symbol

-----------------------------------------------------------------------------
(* Properties of av_overview_asset_type *)

AvEnabled == av_config.key /\ av_config.filter

\* the symbol has a cache entry written less than seven days ago
YoungerThanSevenDays(symbol) ==
    symbol \in DOMAIN av_cache /\ av_now - av_cache[symbol].ts < 7

RequestsWithinBudget ==
    /\ av_requests = av_calls
    /\ av_requests <= av_config.budget

AvStepEffect ==
    /\ av_requests' >= av_requests
    /\ (~AvEnabled \/ av_calls >= av_config.budget) => av_requests' = av_requests
    /\ av_requests' # av_requests => ~YoungerThanSevenDays(av_last'.symbol)
    /\ (av_last' # av_last /\ AvEnabled /\ YoungerThanSevenDays(av_last'.symbol)) =>
          /\ av_last'.issued = 0
          /\ av_last'.returned = Upper(av_cache[av_last'.symbol].asset)
          /\ av_cache' = av_cache

\* C30: in one process the OVERVIEW requests issued are as many as _av_calls
\* and never more than AV_OVERVIEW_DAILY_BUDGET; a step issues no request
\* when the budget is reached, the key is missing or the filter is disabled,
\* and a call for a symbol whose cache entry is younger than 7 days issues no
\* request and returns the cached asset type.
C30_RequestsWithinBudget == []RequestsWithinBudget /\ [][AvStepEffect]_vars

\* the budget is used up and the last call, for a symbol the cache does not
\* hold, issued no request
C30_Witness ==
    /\ AvEnabled
    /\ av_config.budget = MaxBudget
    /\ av_requests = av_config.budget
    /\ av_last # <<>>
    /\ av_last.issued = 0
    /\ av_last.symbol \notin DOMAIN av_cache

\* the loop over the candidates of one symbol stopped at the budget
BudgetCutsCandidates ==
    /\ AvEnabled
    /\ av_config.budget = MaxBudget
    /\ av_last # <<>>
    /\ av_last.symbol = TokyoSymbol
    /\ av_last.issued = MaxBudget
    /\ av_last.returned = ""

\* a call answered from the cache with budget left
AnsweredFromCache ==
    /\ AvEnabled
    /\ av_calls < av_config.budget
    /\ av_last # <<>>
    /\ av_last.issued = 0
    /\ av_last.returned = "ETF"
    /\ YoungerThanSevenDays(av_last.symbol)

\* an entry exactly seven days old is asked for again
SevenDaysOldAskedAgain ==
    /\ av_last # <<>>
    /\ av_last.issued > 0
    /\ av_last.symbol \in DOMAIN av_cache
    /\ av_now - av_cache[av_last.symbol].ts = 7

=============================================================================
